---------------------------- MODULE Spec2Model ----------------------------
(***************************************************************************)
(* A model of the evaluation orchestration engine of DynamicAgentRANPGE:   *)
(* topic managers, the largest-remainder apportionment, the live           *)
(* generation pipeline (app/services/evaluation/evaluation_service.py) and *)
(* the CSV question bank (csv_evaluation_service.py).                      *)
(*                                                                         *)
(* The module holds several specifications over one set of variables.      *)
(* Each specification moves the variables of one part of the program and   *)
(* leaves the others at their idle values:                                 *)
(*   SpecDist   distribute_question_counts as a pure function              *)
(*   SpecTopic  a TopicManager and its draws                               *)
(*   SpecPos    a PositioningTopicManager and its draws                    *)
(*   Spec       one call of evaluate_standard or evaluate_mixed            *)
(*   SpecCsv    one call of evaluate_mixed_from_csv                        *)
(*   SpecSelect select_random_questions_balanced as a function             *)
(*   SpecJson   extract_and_parse_json as a function                        *)
(*   SpecBulk   one call of _generate_batch_questions (bank generation)     *)
(*   SpecParse  parse_llm_response over the answers of one batch            *)
(*   SpecAuth   the tokens of AuthService in the Redis store                 *)
(*   SpecProgress  update_module_progress on one course of one user          *)
(*   SpecRefs   fetch_references_for_question and format_and_merge_refs      *)
(*   SpecBank   generate_module_questions for both languages at once        *)
(*   SpecState  concurrent get_agent_for_course calls on the agent cache    *)
(*   SpecShared one evaluation call while other requests clear and rebuild  *)
(*              the shared agent cache                                      *)
(***************************************************************************)
EXTENDS Integers, Sequences, FiniteSets, TLC

VARIABLES
    \* ---- distribute_question_counts, called on its own
    dq_num_questions,   \* its argument num_questions
    dq_weights,         \* its argument weights, in units of 1/WScale
    dq_result,          \* [kind |-> "pending"], or what the call produced
    \* ---- a topic manager and the log of its draws
    topic_manager,      \* a TopicManager or a PositioningTopicManager
    draws,              \* the draws made so far, oldest first
    \* ---- one evaluation request
    request,            \* the arguments of the call
    pc,                 \* where the request's coroutine stands
    outcome,            \* what the caller received: a result dict or an exception
    agents_cache,       \* state.agents_cache: the course keys that hold an agent
    calls,              \* collaborator calls issued so far, per kind
    counts,             \* <<num_mcq, num_open>>
    topics_and_types,   \* the (topic, type) pairs handed to the batches
    tasks,              \* generate_with_semaphore, one task per pair
    batches,            \* the batch coroutines
    ref_tasks,          \* the reference fetch of each pair's question
    generation_semaphore,   \* free permits
    reference_semaphore,    \* free permits
    \* ---- evaluate_mixed_from_csv
    csv,                \* the locals of the call: the loading loop and its lists
    \* ---- concurrent get_agent_for_course calls (app/state.py)
    callers,            \* each caller: its course key, where it stands, what it got
    lock,               \* state._lock: the caller that holds it, or NoCaller
    agent_of,           \* state.agents_cache as a dict: course key -> agent
    \* ---- QuestionGenerationService: the bank generation of one module
    bank,               \* generated_hashes and the run of each language
    \* ---- reference resolution of one question
    resolution,         \* source nodes, raw references and merged references
    \* ---- ProgressionService: the progress of one user in one course
    course_progress,    \* user.course_progress[course_name] as stored
    \* ---- AuthService: the Redis store of the tokens
    redis               \* token:, refresh: and user_tokens: keys, tokens issued

distVars  == <<dq_num_questions, dq_weights, dq_result>>
stateVars == <<callers, lock, agent_of>>
otherVars == <<stateVars, bank, resolution, course_progress, redis>>
topicVars == <<topic_manager, draws>>
reqVars   == <<request, pc, outcome, agents_cache, calls, counts>>
runVars   == <<topics_and_types, tasks, batches, ref_tasks,
               generation_semaphore, reference_semaphore>>
vars      == <<distVars, topicVars, reqVars, runVars, csv, otherVars>>

---------------------------------------------------------------------------
(* Sequences as Python lists *)

Range(s) == {s[i] : i \in DOMAIN s}

IsDistinct(s) == \A i, j \in DOMAIN s : i # j => s[i] # s[j]

Perms(n) == {p \in [1..n -> 1..n] : \A i, j \in 1..n : i # j => p[i] # p[j]}

\* random.shuffle(s): every reordering of s is a possible outcome
Shuffles(s) == {[i \in 1..Len(s) |-> s[p[i]]] : p \in Perms(Len(s))}

\* the index of the first element of s equal to x (s contains x)
FirstIndex(s, x) == CHOOSE i \in DOMAIN s : s[i] = x /\ \A j \in 1..(i-1) : s[j] # x

\* list.remove(x): drops the first element equal to x
ListRemove(s, x) ==
    LET k == FirstIndex(s, x)
    IN  [i \in 1..(Len(s) - 1) |-> IF i < k THEN s[i] ELSE s[i + 1]]

RECURSIVE SumSeq(_)
SumSeq(s) == IF s = <<>> THEN 0 ELSE Head(s) + SumSeq(Tail(s))

Abs(x) == IF x < 0 THEN -x ELSE x

---------------------------------------------------------------------------
(* Weights.  A weight w of the program is the integer w * WScale here, so  *)
(* 0.6 is 6000 and the tolerance 0.001 is WScale / 1000.                   *)

WScale == 10 * 1000

\* evaluate_mixed, lines 560-564: both weights in [0, 1] and
\* abs((mcq_weight + open_weight) - 1.0) > 0.001 rejected
WeightsInRange(w1, w2) == 0 <= w1 /\ w1 <= WScale /\ 0 <= w2 /\ w2 <= WScale

WeightsSumToOne(w1, w2) == ~(Abs((w1 + w2) - WScale) * 1000 > WScale)

---------------------------------------------------------------------------
(* distribute_question_counts *)

\* raw_counts[i] = w * num_questions; floored[i] = math.floor(raw_counts[i])
RawCounts(n, weights) == [i \in DOMAIN weights |-> weights[i] * n]
Floored(n, weights)   == [i \in DOMAIN weights |-> (weights[i] * n) \div WScale]
Residual(n, weights)  == [i \in DOMAIN weights |-> (weights[i] * n) % WScale]

\* remainder = num_questions - sum(floored)
Remainder(n, weights) == n - SumSeq(Floored(n, weights))

\* residuals.sort(key=residual, reverse=True): descending by residual, and
\* Python's sort keeps the original order of equal keys, also when reversed
ResidualOrder(n, weights) ==
    LET r == Residual(n, weights)
        k == Len(weights)
    IN  CHOOSE p \in Perms(k) :
            \A i, j \in 1..k : i < j =>
                \/ r[p[i]] > r[p[j]]
                \/ r[p[i]] = r[p[j]] /\ p[i] < p[j]

\* for i in range(remainder): floored[residuals[i][0]] += 1
\* residuals[i] with i >= len(weights) raises IndexError
distribute_question_counts(n, weights) ==
    LET rem   == Remainder(n, weights)
        order == ResidualOrder(n, weights)
        fl    == Floored(n, weights)
    IN  IF rem > Len(weights)
        THEN [kind |-> "IndexError"]
        ELSE [kind   |-> "ok",
              counts |-> [i \in DOMAIN weights |->
                            fl[i] + IF \E k \in 1..rem : order[k] = i
                                    THEN 1 ELSE 0]]

---------------------------------------------------------------------------
(* TopicManager *)

\* __init__: original_topics = topics.copy(); available_topics a shuffled copy
TopicManagerInit(topics) ==
    {[kind |-> "TopicManager", original_topics |-> topics, available_topics |-> a] :
        a \in Shuffles(topics)}

\* mutant: the pool is refilled when one topic is left, not when it is empty
TM_Refill_Early(tm) ==
    IF Len(tm.available_topics) <= 1
    THEN {[tm EXCEPT !.available_topics = a] : a \in Shuffles(tm.original_topics)}
    ELSE {tm}

\* get_next_topic, lines 46-48: an empty pool is refilled from original_topics
\* and reshuffled; a non-empty pool is left as it is
TM_Refill(tm) ==
    IF tm.available_topics = <<>>
    THEN {[tm EXCEPT !.available_topics = a] : a \in Shuffles(tm.original_topics)}
    ELSE {tm}

\* mutant: the chosen topic stays in the pool (a draw with replacement)
TM_Take_Keep(tm, i) == [topic |-> tm.available_topics[i], tm |-> tm]

\* a take that removes every copy of the chosen topic from the pool
TM_Take_AllCopies(tm, i) ==
    [topic |-> tm.available_topics[i],
     tm    |-> [tm EXCEPT !.available_topics =
                    SelectSeq(@, LAMBDA t : t # tm.available_topics[i])]]

\* lines 51-52: topic = random.choice(available); available.remove(topic)
TM_Take(tm, i) ==
    [topic |-> tm.available_topics[i],
     tm    |-> [tm EXCEPT !.available_topics = ListRemove(@, tm.available_topics[i])]]

\* get_next_topic: every (topic, manager afterwards) the call can produce.
\* With no topic at all random.choice raises IndexError: the set is empty.
TM_get_next_topic(tm) ==
    UNION {{TM_Take(t, i) : i \in DOMAIN t.available_topics} : t \in TM_Refill(tm)}

TM_Raises(tm) == tm.original_topics = <<>> /\ tm.available_topics = <<>>

---------------------------------------------------------------------------
(* PositioningTopicManager.  modules_topics is a dict: a function from     *)
(* module names to topic lists.                                            *)

\* every sequence that lists the elements of the finite set S once each
SeqsOfSet(S) ==
    {q \in [1..Cardinality(S) -> S] : \A i, j \in 1..Cardinality(S) : i # j => q[i] # q[j]}

\* an __init__ that keeps every module
KeptModules_All(modules_topics) == DOMAIN modules_topics

\* __init__, lines 77-80: only the modules with a non-empty topic list are kept
KeptModules(modules_topics) == {m \in DOMAIN modules_topics : modules_topics[m] # <<>>}

\* __init__: one TopicManager per kept module, used_modules = set(),
\* available_modules = the kept modules, shuffled
PositioningTopicManagerInit(modules_topics) ==
    LET kept == KeptModules(modules_topics)
    IN  {[kind              |-> "PositioningTopicManager",
          modules_topics    |-> [m \in kept |-> modules_topics[m]],
          module_managers   |-> mm,
          used_modules      |-> {},
          available_modules |-> am] :
            mm \in {f \in [kept -> UNION {TopicManagerInit(modules_topics[m]) : m \in kept}] :
                        \A m \in kept : f[m] \in TopicManagerInit(modules_topics[m])},
            am \in SeqsOfSet(kept)}

\* mutant: the chosen module stays in the module pool
PTM_ChooseModule_Keep(ptm) ==
    IF ptm.available_modules # <<>>
    THEN {[module |-> ptm.available_modules[i],
           reset  |-> FALSE,
           ptm    |-> [ptm EXCEPT !.used_modules = @ \cup {ptm.available_modules[i]}]] :
            i \in DOMAIN ptm.available_modules}
    ELSE {}

\* get_next_topic, lines 94-103: the module choice.  A non-empty module pool
\* gives one of its modules, which is removed and added to used_modules; an
\* empty one is refilled with every module and reshuffled before the choice.
PTM_ChooseModule(ptm) ==
    IF ptm.available_modules # <<>>
    THEN {[module |-> ptm.available_modules[i],
           reset  |-> FALSE,
           ptm    |-> [ptm EXCEPT
                         !.available_modules = ListRemove(@, ptm.available_modules[i]),
                         !.used_modules = @ \cup {ptm.available_modules[i]}]] :
            i \in DOMAIN ptm.available_modules}
    ELSE UNION {{[module |-> am[i],
                  reset  |-> TRUE,
                  ptm    |-> [ptm EXCEPT !.available_modules = ListRemove(am, am[i])]] :
                    i \in DOMAIN am} :
                am \in SeqsOfSet(DOMAIN ptm.module_managers)}

\* lines 91-92: raise ValueError("No modules with topics available")
PTM_Raises(ptm) == DOMAIN ptm.module_managers = {}

\* lines 105-109: the chosen module's TopicManager gives the topic
PTM_get_next_topic(ptm) ==
    UNION {{[topic  |-> d.topic,
             module |-> c.module,
             reset  |-> c.reset,
             tm     |-> [c.ptm EXCEPT !.module_managers[c.module] = d.tm]] :
                d \in TM_get_next_topic(c.ptm.module_managers[c.module])} :
            c \in PTM_ChooseModule(ptm)}

---------------------------------------------------------------------------
(* Either manager, as orchestrate_mixed_evaluation_optimized holds it *)

\* one entry of the log of draws: the topic returned, the module it came from
\* ("" for a TopicManager) and whether the call refilled the (module) pool
DrawOutcomes(mgr) ==
    IF mgr.kind = "PositioningTopicManager"
    THEN IF PTM_Raises(mgr) THEN {} ELSE PTM_get_next_topic(mgr)
    ELSE {[topic  |-> d.topic,
           module |-> "",
           reset  |-> mgr.available_topics = <<>>,
           tm     |-> d.tm] : d \in TM_get_next_topic(mgr)}

DrawRaises(mgr) ==
    IF mgr.kind = "PositioningTopicManager" THEN PTM_Raises(mgr) ELSE TM_Raises(mgr)

\* the exception of a raising call: random.choice on an empty pool (line 51),
\* or the ValueError of lines 91-92
DrawError(mgr) ==
    IF mgr.kind = "PositioningTopicManager" THEN "ValueError" ELSE "IndexError"

\* the longest run of draws followed in SpecTopic and SpecPos
MaxDraws == 7

\* one call of get_next_topic on the manager
Draw ==
    /\ topic_manager.kind # "none"
    /\ Len(draws) < MaxDraws
    /\ IF DrawRaises(topic_manager)
       THEN /\ draws' = Append(draws, [topic |-> "", module |-> "", reset |-> FALSE,
                                       error |-> DrawError(topic_manager)])
            /\ UNCHANGED topic_manager
       ELSE \E d \in DrawOutcomes(topic_manager) :
              /\ topic_manager' = d.tm
              /\ draws' = Append(draws, [topic |-> d.topic, module |-> d.module,
                                         reset |-> d.reset, error |-> ""])
    /\ UNCHANGED <<distVars, otherVars, reqVars, runVars, csv>>

\* topic lists a TopicManager is built from
TopicLists == {<<"A">>, <<"A", "B">>, <<"A", "B", "C">>, <<"A", "B", "A">>}

\* TopicManager(topics): the call, with the caller's list, and the object it
\* returns
InitTopic ==
    /\ \E topics \in TopicLists :
          /\ request = [kind |-> "TopicManager", topics |-> topics]
          /\ topic_manager \in TopicManagerInit(topics)
    /\ draws = <<>>

\* module-to-topics dicts a PositioningTopicManager is built from
ModulesTopicsSet ==
    { [m \in {"M1"} |-> <<"A">>],
      [m \in {"M1", "M2"} |-> IF m = "M1" THEN <<"A", "B">> ELSE <<"C">>],
      [m \in {"M1", "M2", "M3"} |-> IF m = "M1" THEN <<"A">>
                                    ELSE IF m = "M2" THEN <<"B">> ELSE <<"C", "D">>],
      [m \in {"M1", "M2", "M3"} |-> IF m = "M1" THEN <<"A">>
                                    ELSE IF m = "M2" THEN <<>> ELSE <<"C">>],
      [m \in {"M1", "M2"} |-> <<>>] }

\* PositioningTopicManager(modules_topics): the call and the object it returns
InitPos ==
    /\ \E mt \in ModulesTopicsSet :
          /\ request = [kind |-> "PositioningTopicManager", modules_topics |-> mt]
          /\ topic_manager \in PositioningTopicManagerInit(mt)
    /\ draws = <<>>

---------------------------------------------------------------------------
(* Inputs of the pure-function specification *)

\* weights offered to distribute_question_counts, in 1/WScale
DistWeightSet == {0, 9, 3000, 4000, 4997, 5000, 5003, 6000, 7000, 10000}

\* num_questions offered to distribute_question_counts
DistNumSet == {0, 1, 2, 3, 5, 7, 10, 15, 1112, 5000}

InitDist ==
    /\ dq_num_questions \in DistNumSet
    /\ dq_weights \in {<<a, b>> : a \in DistWeightSet, b \in DistWeightSet}
    /\ dq_result = [kind |-> "pending"]

Distribute ==
    /\ dq_result.kind = "pending"
    /\ dq_result' = distribute_question_counts(dq_num_questions, dq_weights)
    /\ UNCHANGED <<dq_num_questions, dq_weights>>
    /\ UNCHANGED <<topicVars, reqVars, runVars, csv, otherVars>>

---------------------------------------------------------------------------
(* Questions, as the lists the LLM payload carries: the text first, the    *)
(* references last.                                                        *)

MCQ(text)  == <<text, "choice1", "choice2", "choice3", "choice4", "answer", "feedback", "placeholder">>
Open(text) == <<text, "answer", "placeholder">>

QuestionOfType(text, type) == IF type = "mcq" THEN MCQ(text) ELSE Open(text)

IsMCQ(q)  == Len(q) = 8
IsOpen(q) == Len(q) = 3

\* question[-1] = formatted_refs
SetReferences(q, refs) == [q EXCEPT ![Len(q)] = refs]

---------------------------------------------------------------------------
(* One evaluation request: evaluate_standard or evaluate_mixed *)

EmptyDict == <<>>

\* the cache key of the request's course: course_filter or "all"
CacheKey == "all"

NoCalls == [build |-> 0, retrieval |-> 0, llm |-> 0, csv |-> 0]

Raised(err) == [kind |-> "raised", error |-> err]

\* a validation without the check of the sum of the weights
ValidationError_NoSum(req) ==
    IF req.kind # "evaluate_mixed" THEN ""
    ELSE IF ~WeightsInRange(req.mcq_weight, req.open_weight)
         THEN "400 Weights must be between 0 and 1"
    ELSE IF req.is_positioning /\ req.modules_topics = EmptyDict
         THEN "400 modules_topics is required for positioning evaluation"
    ELSE ""

\* evaluate_mixed, lines 560-567: the error the validation raises, "" if none
ValidationError(req) ==
    IF req.kind # "evaluate_mixed" THEN ""
    ELSE IF ~WeightsInRange(req.mcq_weight, req.open_weight)
         THEN "400 Weights must be between 0 and 1"
    ELSE IF ~WeightsSumToOne(req.mcq_weight, req.open_weight)
         THEN "400 MCQ and Open weights must sum to 1.0"
    ELSE IF req.is_positioning /\ req.modules_topics = EmptyDict
         THEN "400 modules_topics is required for positioning evaluation"
    ELSE ""

\* evaluate_mixed up to its first await (evaluate_standard validates nothing)
Validate ==
    /\ pc = "validate"
    /\ IF ValidationError(request) # ""
       THEN /\ pc' = "raised"
            /\ outcome' = Raised(ValidationError(request))
       ELSE /\ pc' = "get_agent"
            /\ UNCHANGED outcome
    /\ UNCHANGED <<request, agents_cache, calls, counts, topicVars, runVars>>
    /\ UNCHANGED <<distVars, otherVars, csv>>

\* state.get_agent_for_course: a cached agent is returned as it is; otherwise
\* _build_agent_for_course loads the tools and builds the agent, which can fail
GetAgent ==
    /\ pc = "get_agent"
    /\ IF CacheKey \in agents_cache
       THEN /\ pc' = "plan"
            /\ UNCHANGED <<outcome, agents_cache, calls>>
       ELSE /\ calls' = [calls EXCEPT !.build = @ + 1]
            /\ \/ /\ agents_cache' = agents_cache \cup {CacheKey}
                  /\ pc' = "plan"
                  /\ UNCHANGED outcome
               \/ /\ pc' = "raised"
                  /\ outcome' = Raised("agent build failed")
                  /\ UNCHANGED agents_cache
    /\ UNCHANGED <<request, counts, topicVars, runVars>>
    /\ UNCHANGED <<distVars, otherVars, csv>>

\* state.clear_course_cache, or the pop of state.reload_agent_from_json, run
\* by another request while this one is under way (admin_routes.py line 90
\* clears the cache of a course after an upload)
ClearCourseCache ==
    /\ pc \in {"validate", "get_agent", "plan", "draw", "gather", "references"}
    /\ CacheKey \in agents_cache
    /\ agents_cache' = agents_cache \ {CacheKey}
    /\ UNCHANGED <<request, pc, outcome, calls, counts, topicVars, runVars>>
    /\ UNCHANGED <<distVars, otherVars, csv>>

\* _build_agent_for_course run by another request (its get_agent_for_course,
\* or the second half of reload_agent_from_json)
BuildByOtherRequest ==
    /\ pc \in {"validate", "get_agent", "plan", "draw", "gather", "references"}
    /\ CacheKey \notin agents_cache
    /\ agents_cache' = agents_cache \cup {CacheKey}
    /\ UNCHANGED <<request, pc, outcome, calls, counts, topicVars, runVars>>
    /\ UNCHANGED <<distVars, otherVars, csv>>

\* the callers of orchestrate_mixed_evaluation_optimized: evaluate_mixed, and
\* _generate_batch_questions of the question bank generation
OrchestratesMixed(req) == req.kind \in {"evaluate_mixed", "_generate_batch_questions"}

\* the counts of each type to draw: distribute_question_counts for a mixed
\* evaluation (line 389), num_questions of eval_type for a standard one
PlannedCounts(req) ==
    IF OrchestratesMixed(req)
    THEN distribute_question_counts(req.num_questions, <<req.mcq_weight, req.open_weight>>)
    ELSE [kind   |-> "ok",
          counts |-> IF req.eval_type = "mcq" THEN <<req.num_questions, 0>>
                     ELSE <<0, req.num_questions>>]

\* lines 393-397 and 348: the manager the pairs are drawn from
ManagersFor(req) ==
    IF OrchestratesMixed(req) /\ req.is_positioning /\ req.modules_topics # EmptyDict
    THEN PositioningTopicManagerInit(req.modules_topics)
    ELSE TopicManagerInit(req.topics)

\* orchestrate_*: the counts and the topic manager
Plan ==
    /\ pc = "plan"
    /\ LET c == PlannedCounts(request)
       IN  IF c.kind # "ok"
           THEN /\ pc' = "raised"
                /\ outcome' = Raised(c.kind)
                /\ UNCHANGED <<counts, topic_manager>>
           ELSE /\ pc' = "draw"
                /\ counts' = c.counts
                /\ topic_manager' \in ManagersFor(request)
                /\ UNCHANGED outcome
    /\ UNCHANGED <<request, agents_cache, calls, draws, runVars>>
    /\ UNCHANGED <<distVars, otherVars, csv>>

\* the largest request whose pairs are followed one by one
MaxQuestions == 3

TotalPairs == counts[1] + counts[2]

\* lines 400-404 and 350-353: one get_next_topic call of the planning loops
PlanDraw ==
    /\ pc = "draw"
    /\ TotalPairs <= MaxQuestions
    /\ Len(draws) < TotalPairs
    /\ IF DrawRaises(topic_manager)
       THEN /\ pc' = "raised"
            /\ outcome' = Raised(DrawError(topic_manager))
            /\ UNCHANGED topicVars
       ELSE /\ \E d \in DrawOutcomes(topic_manager) :
                /\ topic_manager' = d.tm
                /\ draws' = Append(draws, [topic |-> d.topic, module |-> d.module,
                                           reset |-> d.reset, error |-> ""])
            /\ UNCHANGED <<pc, outcome>>
    /\ UNCHANGED <<request, agents_cache, calls, counts, runVars>>
    /\ UNCHANGED <<distVars, otherVars, csv>>

\* the pairs in drawing order: num_mcq tagged "mcq", then num_open tagged "open"
TaggedDraws ==
    [i \in 1..Len(draws) |-> <<draws[i].topic, IF i <= counts[1] THEN "mcq" ELSE "open">>]

\* line 406: random.shuffle(topics_and_types); evaluate_standard keeps the order
PairOrders(req, pairs) ==
    IF OrchestratesMixed(req) THEN Shuffles(pairs) ELSE {pairs}

---------------------------------------------------------------------------
(* Batches and tasks.  app/config.py sets EVALUATION_BATCH_SIZE,           *)
(* MAX_CONCURRENT_EVALUATIONS and MAX_CONCURRENT_REFERENCES to 15 and      *)
(* populate_references_parallel_memory_safe fetches 5 references at a      *)
(* time; the model follows the same scheduling with smaller values, so     *)
(* that a request of MaxQuestions pairs spans several batches.             *)

EVALUATION_BATCH_SIZE == 2
MAX_CONCURRENT_EVALUATIONS == 2
MAX_CONCURRENT_REFERENCES == 1
REFERENCE_BATCH_SIZE == 1

Min(a, b) == IF a < b THEN a ELSE b

\* range(0, len(topics_and_types), EVALUATION_BATCH_SIZE): the batch of pair i
BatchOf(i) == ((i - 1) \div EVALUATION_BATCH_SIZE) + 1

NumBatches(n) == (n + EVALUATION_BATCH_SIZE - 1) \div EVALUATION_BATCH_SIZE

BatchItems(b) == {i \in DOMAIN tasks : BatchOf(i) = b}

\* the members of the finite set S of integers, in ascending order
RECURSIVE Ascending(_)
Ascending(S) ==
    IF S = {} THEN <<>>
    ELSE LET m == CHOOSE x \in S : \A y \in S : x <= y
         IN  <<m>> \o Ascending(S \ {m})

\* batch_questions: the pairs of batch b whose task produced a question, in
\* the order of the pairs (gather returns the results in the order of its tasks)
BatchQuestionIdx(b) == Ascending({i \in BatchItems(b) : tasks[i].result # <<>>})

\* lines 485-488: the slice of the batch's questions fetched together, from
\* offset k on
RefSlice(idx, k) ==
    LET size == Min(REFERENCE_BATCH_SIZE, Len(idx))
    IN  {idx[j] : j \in (k + 1)..Min(k + size, Len(idx))}

\* line 355 / lines 408-433: the semaphores, the tasks and the batch
\* coroutines.  evaluate_mixed hands every batch to one gather; evaluate_standard
\* awaits the batches one after the other.  The topic manager is a local of
\* the planning loops and is not used after them.
StartBatches ==
    /\ pc = "draw"
    /\ TotalPairs <= MaxQuestions
    /\ Len(draws) = TotalPairs
    /\ topics_and_types' \in PairOrders(request, TaggedDraws)
    /\ tasks' = [i \in 1..TotalPairs |-> [st |-> "waiting", result |-> <<>>, writes |-> 0]]
    /\ ref_tasks' = [i \in 1..TotalPairs |-> "none"]
    /\ batches' = [b \in 1..NumBatches(TotalPairs) |->
                     [st |-> IF OrchestratesMixed(request) \/ b = 1
                             THEN "generating" ELSE "notstarted",
                      ref_from |-> 0]]
    /\ generation_semaphore' = MAX_CONCURRENT_EVALUATIONS
    /\ reference_semaphore' = MAX_CONCURRENT_REFERENCES
    /\ pc' = IF TotalPairs = 0 /\ request.kind = "evaluate_standard"
             THEN "references" ELSE "gather"
    /\ topic_manager' = [kind |-> "none"]
    /\ draws' = <<>>
    /\ UNCHANGED <<request, outcome, agents_cache, calls, counts>>
    /\ UNCHANGED <<distVars, otherVars, csv>>

\* a task that enters without waiting for a generation permit
TaskAcquire_NoWait(i) ==
    /\ tasks[i].st = "waiting"
    /\ batches[BatchOf(i)].st # "notstarted"
    /\ IF CacheKey \in agents_cache
       THEN /\ tasks' = [tasks EXCEPT ![i].st = "context"]
            /\ generation_semaphore' = generation_semaphore - 1
            /\ calls' = [calls EXCEPT !.retrieval = @ + 1]
       ELSE /\ tasks' = [tasks EXCEPT ![i].st = "failed"]
            /\ UNCHANGED <<generation_semaphore, calls>>
    /\ UNCHANGED <<request, pc, outcome, agents_cache, counts, topicVars,
                   topics_and_types, batches, ref_tasks, reference_semaphore>>
    /\ UNCHANGED <<distVars, otherVars, csv>>

\* generate_with_semaphore: "async with semaphore" and the start of
\* get_context_for_topic (lines 268-277); without a cached agent it raises
TaskAcquire(i) ==
    /\ tasks[i].st = "waiting"
    /\ batches[BatchOf(i)].st # "notstarted"
    /\ generation_semaphore > 0
    /\ IF CacheKey \in agents_cache
       THEN /\ tasks' = [tasks EXCEPT ![i].st = "context"]
            /\ generation_semaphore' = generation_semaphore - 1
            /\ calls' = [calls EXCEPT !.retrieval = @ + 1]
       ELSE /\ tasks' = [tasks EXCEPT ![i].st = "failed"]
            /\ UNCHANGED <<generation_semaphore, calls>>
    /\ UNCHANGED <<request, pc, outcome, agents_cache, counts, topicVars,
                   topics_and_types, batches, ref_tasks, reference_semaphore>>
    /\ UNCHANGED <<distVars, otherVars, csv>>

\* get_context_for_topic returns, and generate_single_question sends the
\* prompt to the LLM (lines 240-254); or the retrieval raises
ContextDone(i) ==
    /\ tasks[i].st = "context"
    /\ \/ /\ tasks' = [tasks EXCEPT ![i].st = "generating"]
          /\ calls' = [calls EXCEPT !.llm = @ + 1]
          /\ UNCHANGED generation_semaphore
       \/ /\ tasks' = [tasks EXCEPT ![i].st = "failed"]
          /\ generation_semaphore' = generation_semaphore + 1
          /\ UNCHANGED calls
    /\ UNCHANGED <<request, pc, outcome, agents_cache, counts, topicVars,
                   topics_and_types, batches, ref_tasks, reference_semaphore>>
    /\ UNCHANGED <<distVars, otherVars, csv>>

\* An LLM answer: `json` says whether a JSON object can be parsed from it,
\* `has_questions` whether the object has the key "questions", `is_list`
\* whether the value of that key is a list, `questions` the list.
Payload(qs) == [json |-> TRUE, has_questions |-> TRUE, is_list |-> TRUE, questions |-> qs]

NotJson == [json |-> FALSE, has_questions |-> FALSE, is_list |-> FALSE, questions |-> <<>>]

NoQuestionsKey == [json |-> TRUE, has_questions |-> FALSE, is_list |-> FALSE, questions |-> <<>>]

QuestionsNotAList == [json |-> TRUE, has_questions |-> TRUE, is_list |-> FALSE, questions |-> <<>>]

\* what the LLM may answer to the prompt for one question on (topic, type):
\* text that is no JSON, JSON without a `questions` list, or a `questions`
\* list of zero, one or two questions of the requested type
LLMResponses(topic, type) ==
    { NotJson, NoQuestionsKey, QuestionsNotAList }
    \cup
    { Payload(qs) :
        qs \in { <<>>,
                 <<QuestionOfType(<<topic, 1>>, type)>>,
                 <<QuestionOfType(<<topic, 1>>, type), QuestionOfType(<<topic, 2>>, type)>> } }

\* a parse that keeps every question of the payload
parse_llm_response_All(resp) ==
    IF ~resp.json THEN [kind |-> "HTTPException 502"]
    ELSE IF ~(resp.has_questions /\ resp.is_list) THEN [kind |-> "HTTPException 502"]
    ELSE [kind |-> "ok", questions |-> resp.questions]

\* parse_llm_response, lines 223-232
parse_llm_response(resp) ==
    IF ~resp.json THEN [kind |-> "HTTPException 502"]
    ELSE IF ~(resp.has_questions /\ resp.is_list) THEN [kind |-> "HTTPException 502"]
    ELSE IF resp.questions # <<>>
         THEN [kind |-> "ok", questions |-> SubSeq(resp.questions, 1, 1)]
         ELSE [kind |-> "ok", questions |-> resp.questions]

\* generate_single_question returns or raises (lines 253-261), and the task
\* leaves "async with semaphore"
GenerationDone(i) ==
    /\ tasks[i].st = "generating"
    /\ \/ tasks' = [tasks EXCEPT ![i].st = "failed"]
       \/ \E resp \in LLMResponses(topics_and_types[i][1], topics_and_types[i][2]) :
            LET parsed == parse_llm_response(resp)
            IN  tasks' = [tasks EXCEPT ![i] =
                            IF parsed.kind = "ok"
                            THEN [st |-> "done", result |-> parsed.questions, writes |-> 0]
                            ELSE [st |-> "failed", result |-> <<>>, writes |-> 0]]
    /\ generation_semaphore' = generation_semaphore + 1
    /\ UNCHANGED <<request, pc, outcome, agents_cache, calls, counts, topicVars,
                   topics_and_types, batches, ref_tasks, reference_semaphore>>
    /\ UNCHANGED <<distVars, otherVars, csv>>

\* a gather that collects the exceptions of its children instead of raising
GatherState_Swallow(states) ==
    IF states \subseteq {"done", "failed"} THEN "done" ELSE "pending"

\* asyncio.gather over children in the given states: it raises as soon as one
\* child has failed, and returns once every child is done
GatherState(states) ==
    IF "failed" \in states THEN "raised"
    ELSE IF states \subseteq {"done"} THEN "done"
    ELSE "pending"

\* a batch that goes on as soon as one of its tasks is done
BatchGatherState_FirstDone(b) ==
    IF \E i \in BatchItems(b) : tasks[i].st = "done" THEN "done"
    ELSE GatherState({tasks[i].st : i \in BatchItems(b)})

\* line 328: the gather of generate_questions_batch
BatchGatherState(b) == GatherState({tasks[i].st : i \in BatchItems(b)})

\* the pairs whose task produced a question, over the whole request
QuestionIdx == Ascending({i \in DOMAIN tasks : tasks[i].result # <<>>})

\* all_questions: the questions of the batches, in the order of the pairs
AllQuestions == [j \in 1..Len(QuestionIdx) |-> tasks[QuestionIdx[j]].result[1]]

\* fetch_references_for_question up to its await (lines 117-127) for the
\* pairs in S: the state of each reference fetch afterwards
RefStarted(S, st) ==
    [i \in DOMAIN ref_tasks |->
        IF i \in S THEN (IF CacheKey \in agents_cache THEN st ELSE "failed")
        ELSE ref_tasks[i]]

\* generate_questions_batch has returned in batch b.
\* evaluate_mixed (process_batch_with_pipeline, lines 412-424): the batch goes
\* on to the references of its questions, or returns when it has none.
\* evaluate_standard (lines 358-370): the next batch starts; after the last
\* one every reference is fetched at once, with no semaphore.
BatchGenerated(b) ==
    /\ batches[b].st = "generating"
    /\ BatchGatherState(b) = "done"
    /\ IF OrchestratesMixed(request)
       THEN /\ IF BatchQuestionIdx(b) = <<>>
               THEN /\ batches' = [batches EXCEPT ![b].st = "returned"]
                    /\ UNCHANGED ref_tasks
               ELSE /\ batches' = [batches EXCEPT ![b].st = "references"]
                    /\ ref_tasks' = [i \in DOMAIN ref_tasks |->
                                       IF i \in RefSlice(BatchQuestionIdx(b), 0)
                                       THEN "waiting" ELSE ref_tasks[i]]
            /\ UNCHANGED <<pc, calls>>
       ELSE /\ pc = "gather"
            /\ IF b < Len(batches)
               THEN /\ batches' = [batches EXCEPT ![b].st = "returned",
                                                  ![b + 1].st = "generating"]
                    /\ UNCHANGED <<pc, ref_tasks, calls>>
               ELSE /\ batches' = [batches EXCEPT ![b].st = "returned"]
                    /\ pc' = "references"
                    /\ ref_tasks' = RefStarted(Range(QuestionIdx), "fetching")
                    /\ calls' = [calls EXCEPT !.retrieval =
                                    @ + IF CacheKey \in agents_cache
                                        THEN Len(QuestionIdx) ELSE 0]
    /\ UNCHANGED <<request, outcome, agents_cache, counts, topicVars,
                   topics_and_types, tasks, generation_semaphore, reference_semaphore>>
    /\ UNCHANGED <<distVars, otherVars, csv>>

\* the slice of batch b whose references are being fetched
CurrentSlice(b) == RefSlice(BatchQuestionIdx(b), batches[b].ref_from)

\* the gather of batch b raises: a generation task has failed (line 328), or
\* a reference fetch of the current slice has (line 496)
BatchRaise(b) ==
    /\ \/ /\ batches[b].st = "generating"
          /\ BatchGatherState(b) = "raised"
          /\ request.kind = "evaluate_standard" => pc = "gather"
       \/ /\ batches[b].st = "references"
          /\ \E i \in CurrentSlice(b) : ref_tasks[i] = "failed"
    /\ batches' = [batches EXCEPT ![b].st = "raised"]
    /\ UNCHANGED <<reqVars, topicVars, topics_and_types, tasks, ref_tasks,
                   generation_semaphore, reference_semaphore>>
    /\ UNCHANGED <<distVars, otherVars, csv>>

\* fetch_with_semaphore: "async with semaphore" and the start of
\* fetch_references_for_question
RefAcquire(i) ==
    /\ ref_tasks[i] = "waiting"
    /\ reference_semaphore > 0
    /\ ref_tasks' = RefStarted({i}, "fetching")
    /\ IF CacheKey \in agents_cache
       THEN /\ reference_semaphore' = reference_semaphore - 1
            /\ calls' = [calls EXCEPT !.retrieval = @ + 1]
       ELSE UNCHANGED <<reference_semaphore, calls>>
    /\ UNCHANGED <<request, pc, outcome, agents_cache, counts, topicVars,
                   topics_and_types, tasks, batches, generation_semaphore>>
    /\ UNCHANGED <<distVars, otherVars, csv>>

\* agent.query returns the source nodes, or raises; in
\* populate_references_parallel_memory_safe the fetch leaves "async with semaphore"
RefDone(i) ==
    /\ ref_tasks[i] = "fetching"
    /\ \E st \in {"fetched", "failed"} : ref_tasks' = [ref_tasks EXCEPT ![i] = st]
    /\ reference_semaphore' = IF OrchestratesMixed(request)
                              THEN reference_semaphore + 1 ELSE reference_semaphore
    /\ UNCHANGED <<reqVars, topicVars, topics_and_types, tasks, batches,
                   generation_semaphore>>
    /\ UNCHANGED <<distVars, otherVars, csv>>

\* lines 498-500 and 465-467: question[-1] = formatted_refs for the pairs in S;
\* `writes` counts the assignments to the references slot of a question
WithReferences(S) ==
    [i \in DOMAIN tasks |->
        IF i \in S
        THEN [tasks[i] EXCEPT !.result = <<SetReferences(tasks[i].result[1], "references")>>,
                              !.writes = @ + 1]
        ELSE tasks[i]]

\* populate_references_parallel_memory_safe: the slice's gather has returned;
\* its references are written and the next slice starts, or the batch returns
RefWrite(b) ==
    /\ batches[b].st = "references"
    /\ \A i \in CurrentSlice(b) : ref_tasks[i] = "fetched"
    /\ tasks' = WithReferences(CurrentSlice(b))
    /\ LET idx  == BatchQuestionIdx(b)
           next == batches[b].ref_from + Cardinality(CurrentSlice(b))
       IN  /\ batches' = [batches EXCEPT
                            ![b].ref_from = next,
                            ![b].st = IF next >= Len(idx) THEN "returned" ELSE "references"]
           /\ ref_tasks' = [i \in DOMAIN ref_tasks |->
                              IF i \in CurrentSlice(b) THEN "written"
                              ELSE IF i \in RefSlice(idx, next) THEN "waiting"
                              ELSE ref_tasks[i]]
    /\ UNCHANGED <<reqVars, topicVars, topics_and_types,
                   generation_semaphore, reference_semaphore>>
    /\ UNCHANGED <<distVars, otherVars, csv>>

Returned(questions) == [kind |-> "returned", result |-> [questions |-> questions]]

\* orchestrate_standard_evaluation, lines 369-372, and evaluate_standard's
\* return: every reference is written, or there was no question at all
StandardReturn ==
    /\ request.kind = "evaluate_standard"
    /\ pc = "references"
    /\ \A i \in DOMAIN ref_tasks : ref_tasks[i] \in {"none", "fetched"}
    /\ tasks' = WithReferences({i \in DOMAIN ref_tasks : ref_tasks[i] = "fetched"})
    /\ ref_tasks' = [i \in DOMAIN ref_tasks |->
                       IF ref_tasks[i] = "fetched" THEN "written" ELSE ref_tasks[i]]
    /\ pc' = "returned"
    /\ outcome' = Returned([j \in 1..Len(QuestionIdx) |->
                              SetReferences(AllQuestions[j], "references")])
    /\ UNCHANGED <<request, agents_cache, calls, counts, topicVars, topics_and_types,
                   batches, generation_semaphore, reference_semaphore>>
    /\ UNCHANGED <<distVars, otherVars, csv>>

\* orchestrate_mixed_evaluation_optimized, lines 433-445, and evaluate_mixed's
\* return: the outer gather has every batch's questions
MixedReturn ==
    /\ request.kind = "evaluate_mixed"
    /\ pc = "gather"
    /\ \A b \in DOMAIN batches : batches[b].st = "returned"
    /\ pc' = "returned"
    /\ outcome' = Returned(AllQuestions)
    /\ UNCHANGED <<request, agents_cache, calls, counts, topicVars, runVars>>
    /\ UNCHANGED <<distVars, otherVars, csv>>

\* the exception of a batch (or of a reference fetch of evaluate_standard)
\* reaches the caller of evaluate_mixed / evaluate_standard
RequestFailed ==
    \/ \E b \in DOMAIN batches : batches[b].st = "raised"
    \/ pc = "references" /\ \E i \in DOMAIN ref_tasks : ref_tasks[i] = "failed"

Raise ==
    /\ pc \in {"gather", "references"}
    /\ RequestFailed
    /\ pc' = "raised"
    /\ outcome' = Raised("HTTPException")
    /\ UNCHANGED <<request, agents_cache, calls, counts, topicVars, runVars>>
    /\ UNCHANGED <<distVars, otherVars, csv>>

---------------------------------------------------------------------------
(* The CSV question bank: evaluate_mixed_from_csv                           *)
(* (app/services/evaluation/csv_evaluation_service.py)                      *)

\* the module names, in the insertion order of the request's modules_topics
ModuleNames == <<"M1", "M2", "M3">>

\* modules_topics.keys() / .items(), in order
Keys(d) == SelectSeq(ModuleNames, LAMBDA m : m \in DOMAIN d)

\* a CSVQuestion built from a row of module m's file; its text names the row
CSVQuestion(m, k, type) == [id |-> <<m, k>>, text |-> <<m, k>>, type |-> type]

\* CSVQuestion.to_evaluation_format
to_evaluation_format(q) ==
    IF q.type = "mcq"
    THEN <<q.text, "option1", "option2", "option3", "option4",
           "correct_answer", "feedback", "csv references">>
    ELSE <<q.text, "correct_answer", "csv references">>

\* what load_questions_from_csv may return for module m: None (no file, or
\* any exception), or the list of the file's rows, which may be empty
NoneValue == [found |-> FALSE, questions |-> <<>>]

CsvFiles(m) ==
    { <<>>,
      <<CSVQuestion(m, 1, "mcq")>>,
      <<CSVQuestion(m, 1, "mcq"), CSVQuestion(m, 2, "open"), CSVQuestion(m, 3, "mcq")>> }

load_questions_from_csv(m) ==
    {NoneValue} \cup {[found |-> TRUE, questions |-> f] : f \in CsvFiles(m)}

\* the modules of the request that have topics, in order (lines 216-217)
ModulesToLoad(req) ==
    SelectSeq(Keys(req.modules_topics), LAMBDA m : req.modules_topics[m] # <<>>)

\* lines 215-231: one iteration of the loading loop, for the next module
\* that has topics
CsvLoad ==
    /\ pc = "csv_load"
    /\ csv.next <= Len(ModulesToLoad(request))
    /\ LET m == ModulesToLoad(request)[csv.next]
       IN  \E r \in load_questions_from_csv(m) :
             csv' = [csv EXCEPT
                       !.next = @ + 1,
                       !.loads = [x \in DOMAIN @ \cup {m} |-> IF x = m THEN r ELSE @[x]],
                       !.questions_by_module =
                           IF r.questions # <<>>
                           THEN [x \in DOMAIN @ \cup {m} |->
                                    IF x = m THEN r.questions ELSE @[x]]
                           ELSE @,
                       !.missing_modules =
                           IF r.questions # <<>> THEN @ ELSE Append(@, m)]
    /\ calls' = [calls EXCEPT !.csv = @ + 1]
    /\ UNCHANGED <<request, pc, outcome, agents_cache, counts, topicVars, runVars>>
    /\ UNCHANGED <<distVars, otherVars>>

RECURSIVE Concat(_)
Concat(ss) == IF ss = <<>> THEN <<>> ELSE Head(ss) \o Concat(Tail(ss))

\* a fallback taken as soon as one module is missing
CsvFallback_AnyMissing ==
    /\ pc = "csv_load"
    /\ csv.next > Len(ModulesToLoad(request))
    /\ csv.missing_modules # <<>>
    /\ request' = [kind |-> "evaluate_mixed",
                   topics |-> Concat([i \in 1..Len(Keys(request.modules_topics)) |->
                                        request.modules_topics[Keys(request.modules_topics)[i]]]),
                   num_questions |-> request.num_questions,
                   mcq_weight |-> request.mcq_weight,
                   open_weight |-> request.open_weight,
                   eval_type |-> "",
                   is_positioning |-> request.is_positioning,
                   modules_topics |-> request.modules_topics]
    /\ csv' = [csv EXCEPT !.fallback = TRUE]
    /\ pc' = "validate"
    /\ UNCHANGED <<outcome, agents_cache, calls, counts, topicVars, runVars>>
    /\ UNCHANGED <<distVars, otherVars>>

\* lines 233-248: no module gave questions; evaluate_mixed is called with
\* the topics of every module, and its outcome is the outcome of the request
CsvFallback ==
    /\ pc = "csv_load"
    /\ csv.next > Len(ModulesToLoad(request))
    /\ DOMAIN csv.questions_by_module = {}
    /\ request' = [kind |-> "evaluate_mixed",
                   topics |-> Concat([i \in 1..Len(Keys(request.modules_topics)) |->
                                        request.modules_topics[Keys(request.modules_topics)[i]]]),
                   num_questions |-> request.num_questions,
                   mcq_weight |-> request.mcq_weight,
                   open_weight |-> request.open_weight,
                   eval_type |-> "",
                   is_positioning |-> request.is_positioning,
                   modules_topics |-> request.modules_topics]
    /\ csv' = [csv EXCEPT !.fallback = TRUE]
    /\ pc' = "validate"
    /\ UNCHANGED <<outcome, agents_cache, calls, counts, topicVars, runVars>>
    /\ UNCHANGED <<distVars, otherVars>>

\* the target counts when num_questions 5, 10 and 15 are not set apart
CsvTargetCounts_WeightsOnly(req) ==
    distribute_question_counts(req.num_questions, <<req.mcq_weight, req.open_weight>>)

\* lines 250-260: the target counts
CsvTargetCounts(req) ==
    IF req.num_questions = 15 THEN [kind |-> "ok", counts |-> <<10, 5>>]
    ELSE IF req.num_questions = 10 THEN [kind |-> "ok", counts |-> <<7, 3>>]
    ELSE IF req.num_questions = 5 THEN [kind |-> "ok", counts |-> <<3, 2>>]
    ELSE distribute_question_counts(req.num_questions, <<req.mcq_weight, req.open_weight>>)

OfType(questions, type) == SelectSeq(questions, LAMBDA q : q.type = type)

\* random.sample(population, k): k different members, in any order
Sample(population, k) ==
    {s \in [1..k -> Range(population)] : \A i, j \in 1..k : i # j => s[i] # s[j]}

\* the hit modules, in the insertion order of questions_by_module
HitModules(qbm) == Keys(qbm)

\* lines 139-150 of select_random_questions_balanced: the pass over the
\* modules, from module i on, with `selected` chosen so far
RECURSIVE BalancedPass(_, _, _, _, _)
BalancedPass(qbm, type, count, i, selected) ==
    LET modules == HitModules(qbm)
    IN  IF i > Len(modules) THEN {selected}
        ELSE LET module_questions     == OfType(qbm[modules[i]], type)
                 quotient             == count \div Len(modules)
                 questions_per_module == IF quotient > 1 THEN quotient ELSE 1
                 remaining_questions  == count % Len(modules)
                 target_count == questions_per_module
                                 + (IF i - 1 < remaining_questions THEN 1 ELSE 0)
             IN  UNION { BalancedPass(qbm, type, count, i + 1, selected \o s) :
                           s \in Sample(module_questions,
                                        Min(target_count, Len(module_questions))) }

\* every question of the type is a candidate again
AllRemaining_Any(all_questions, selected) == all_questions

\* lines 153-155: the questions of the type not selected yet
AllRemaining(all_questions, selected) ==
    SelectSeq(all_questions, LAMBDA q : q \notin Range(selected))

\* select_random_questions_balanced: every list it may return
select_random_questions_balanced(qbm, type, count, is_positioning) ==
    LET modules       == HitModules(qbm)
        all_questions == Concat([i \in 1..Len(modules) |-> OfType(qbm[modules[i]], type)])
    IN  IF ~is_positioning
        THEN IF Len(all_questions) < count THEN {all_questions}
             ELSE Sample(all_questions, count)
        ELSE UNION {
               LET all_remaining == AllRemaining(all_questions, selected)
                   filled == IF Len(selected) < count /\ all_remaining # <<>>
                             THEN {selected \o a :
                                     a \in Sample(all_remaining,
                                                  Min(count - Len(selected), Len(all_remaining)))}
                             ELSE {selected}
               IN  {SubSeq(f, 1, Min(count, Len(f))) : f \in filled}
               : selected \in BalancedPass(qbm, type, count, 1, <<>>) }

CsvResult(questions, missing) ==
    [kind   |-> "returned",
     result |-> [questions |-> questions, source |-> "csv", missing_modules |-> missing]]

\* lines 250-280: counts, selection, shuffle, conversion and the result
CsvSelect ==
    /\ pc = "csv_load"
    /\ csv.next > Len(ModulesToLoad(request))
    /\ DOMAIN csv.questions_by_module # {}
    /\ LET c == CsvTargetCounts(request)
       IN  IF c.kind # "ok"
           THEN /\ pc' = "raised"
                /\ outcome' = Raised(c.kind)
                /\ UNCHANGED <<csv, counts>>
           ELSE \E selected_mcq \in select_random_questions_balanced(
                       csv.questions_by_module, "mcq", c.counts[1], request.is_positioning),
                   selected_open \in select_random_questions_balanced(
                       csv.questions_by_module, "open", c.counts[2], request.is_positioning) :
                  \E all_selected \in Shuffles(selected_mcq \o selected_open) :
                    /\ csv' = [csv EXCEPT !.selected = all_selected]
                    /\ outcome' = CsvResult(
                           [i \in 1..Len(all_selected) |-> to_evaluation_format(all_selected[i])],
                           csv.missing_modules)
                    /\ counts' = c.counts
                    /\ pc' = "returned"
    /\ UNCHANGED <<request, agents_cache, calls, topicVars, runVars>>
    /\ UNCHANGED <<distVars, otherVars>>

---------------------------------------------------------------------------
(* The requests followed *)

\* a num_questions large enough for the tolerance of the weight validation
\* to matter (0.001 * num_questions > 1)
LargeRequest == 5 * 1000

EvalNumSet == (1..MaxQuestions) \cup {LargeRequest}

EvalWeightSet == {4997, 6000, 10000, 12000}

EvalTopicLists == {<<>>, <<"A", "B">>}

TwoModules == [m \in {"M1", "M2"} |-> IF m = "M1" THEN <<"A">> ELSE <<"B">>]

NoTopicModules == [m \in {"M1", "M2"} |-> <<>>]

\* topics, is_positioning and modules_topics of the mixed requests
MixedTopicSettings ==
    { <<<<>>, FALSE, EmptyDict>>,
      <<<<"A", "B">>, FALSE, EmptyDict>>,
      <<<<"A", "B">>, TRUE, EmptyDict>>,
      <<<<"A", "B">>, TRUE, TwoModules>>,
      <<<<"A", "B">>, TRUE, NoTopicModules>> }

MixedRequests ==
    {[kind |-> "evaluate_mixed", topics |-> p[1], num_questions |-> n,
      mcq_weight |-> w1, open_weight |-> w2, eval_type |-> "",
      is_positioning |-> p[2], modules_topics |-> p[3]] :
        n \in EvalNumSet, w1 \in EvalWeightSet, w2 \in EvalWeightSet,
        p \in MixedTopicSettings}

StandardRequests ==
    {[kind |-> "evaluate_standard", topics |-> t, num_questions |-> n,
      mcq_weight |-> 0, open_weight |-> 0, eval_type |-> ty,
      is_positioning |-> FALSE, modules_topics |-> EmptyDict] :
        t \in EvalTopicLists, n \in 1..MaxQuestions, ty \in {"mcq", "open"}}

InitRun ==
    /\ topics_and_types = <<>>
    /\ tasks = <<>>
    /\ batches = <<>>
    /\ ref_tasks = <<>>
    /\ generation_semaphore = 0
    /\ reference_semaphore = 0

InitRequest ==
    /\ request \in MixedRequests \cup StandardRequests
    /\ pc = "validate"
    /\ outcome = [kind |-> "pending"]
    /\ agents_cache = {}
    /\ calls = NoCalls
    /\ counts = <<0, 0>>
    /\ InitRun

IdleCall ==
    /\ pc = "idle"
    /\ outcome = [kind |-> "pending"]
    /\ agents_cache = {}
    /\ calls = NoCalls
    /\ counts = <<0, 0>>
    /\ InitRun

IdleRequest == request = [kind |-> "none"] /\ IdleCall

\* the steps of evaluate_mixed
NextMixed ==
    \/ Validate
    \/ GetAgent
    \/ Plan
    \/ PlanDraw
    \/ StartBatches
    \/ \E i \in DOMAIN tasks : TaskAcquire(i)
    \/ \E i \in DOMAIN tasks : ContextDone(i)
    \/ \E i \in DOMAIN tasks : GenerationDone(i)
    \/ \E b \in DOMAIN batches : BatchGenerated(b)
    \/ \E b \in DOMAIN batches : BatchRaise(b)
    \/ \E i \in DOMAIN ref_tasks : RefAcquire(i)
    \/ \E i \in DOMAIN ref_tasks : RefDone(i)
    \/ \E b \in DOMAIN batches : RefWrite(b)
    \/ MixedReturn
    \/ Raise

\* the largest num_questions of the CSV requests
MaxCsvQuestions == 2

CsvNumSet == (1..MaxCsvQuestions) \cup {5, 10, 15}

OneModuleWithTopics == [m \in {"M1", "M2"} |-> IF m = "M1" THEN <<"A">> ELSE <<>>]

CsvRequests ==
    {[kind |-> "evaluate_mixed_from_csv", modules_topics |-> d, num_questions |-> n,
      mcq_weight |-> w1, open_weight |-> 4997, is_positioning |-> p] :
        d \in {TwoModules, OneModuleWithTopics}, n \in CsvNumSet,
        w1 \in {0, 4997, 6000}, p \in BOOLEAN}

\* the locals at the call; `loads` logs what each load returned
CsvLocals == [next |-> 1, loads |-> <<>>, questions_by_module |-> <<>>,
              missing_modules |-> <<>>, selected |-> <<>>, fallback |-> FALSE]

IdleCsv == csv = CsvLocals

InitCsvRequest ==
    /\ request \in CsvRequests
    /\ pc = "csv_load"
    /\ outcome = [kind |-> "pending"]
    /\ agents_cache = {}
    /\ calls = NoCalls
    /\ counts = <<0, 0>>
    /\ InitRun
    /\ csv = CsvLocals

IdleDist ==
    /\ dq_num_questions = 0
    /\ dq_weights = <<>>
    /\ dq_result = [kind |-> "idle"]

IdleTopic ==
    /\ topic_manager = [kind |-> "none"]
    /\ draws = <<>>

---------------------------------------------------------------------------
(* select_random_questions_balanced, called on its own *)

\* the files of the hit modules: every one holds at least one question
SelectFiles(m) ==
    { <<CSVQuestion(m, 1, "mcq")>>,
      <<CSVQuestion(m, 1, "mcq"), CSVQuestion(m, 2, "mcq")>>,
      <<CSVQuestion(m, 1, "mcq"), CSVQuestion(m, 2, "open"), CSVQuestion(m, 3, "mcq")>>,
      <<CSVQuestion(m, 1, "open"), CSVQuestion(m, 2, "open")>> }

\* questions_by_module, over one, two or three hit modules
SelectBanks ==
    UNION {{qbm \in [mods -> UNION {SelectFiles(m) : m \in mods}] :
               \A m \in mods : qbm[m] \in SelectFiles(m)} :
           mods \in (SUBSET Range(ModuleNames)) \ {{}}}

\* the largest count asked of the selection
MaxSelectCount == 3

InitSelect ==
    /\ \E qbm \in SelectBanks : csv = [CsvLocals EXCEPT !.questions_by_module = qbm]
    /\ request \in {[kind |-> "select_random_questions_balanced",
                     question_type |-> t, count |-> c, is_positioning |-> p] :
                       t \in {"mcq", "open"}, c \in 0..MaxSelectCount, p \in BOOLEAN}
    /\ pc = "select"
    /\ outcome = [kind |-> "pending"]
    /\ agents_cache = {}
    /\ calls = NoCalls
    /\ counts = <<0, 0>>
    /\ InitRun

\* one call of select_random_questions_balanced
Select ==
    /\ pc = "select"
    /\ \E selected \in select_random_questions_balanced(
            csv.questions_by_module, request.question_type, request.count,
            request.is_positioning) :
          csv' = [csv EXCEPT !.selected = selected]
    /\ pc' = "returned"
    /\ UNCHANGED <<request, outcome, agents_cache, calls, counts, topicVars, runVars, distVars, otherVars>>

---------------------------------------------------------------------------
(* extract_and_parse_json, called on its own *)

\* A response is a sequence of tokens: the braces, "m" for a member of an
\* object ("key": scalar, with its comma), "w" for a word of prose and " "
\* for white space.  A brace inside an object is that of a member's value.
Tokens == {"{", "}", "m", "w", " "}

\* the longest response
MaxResponseLen == 5

Responses == UNION {[1..n -> Tokens] : n \in 0..MaxResponseLen}

\* str.strip()
strip(s) ==
    LET inked == {i \in 1..Len(s) : s[i] # " "}
    IN  IF inked = {} THEN <<>>
        ELSE SubSeq(s, CHOOSE i \in inked : \A j \in inked : i <= j,
                       CHOOSE i \in inked : \A j \in inked : j <= i)

\* str.startswith(c), for one character
startswith(s, c) == Len(s) > 0 /\ s[1] = c

\* str.find(c) and str.rfind(c): 0-based, -1 when absent
find(s, c) ==
    LET at == {i \in 1..Len(s) : s[i] = c}
    IN  IF at = {} THEN -1 ELSE (CHOOSE i \in at : \A j \in at : i <= j) - 1

rfind(s, c) ==
    LET at == {i \in 1..Len(s) : s[i] = c}
    IN  IF at = {} THEN -1 ELSE (CHOOSE i \in at : \A j \in at : j <= i) - 1

\* s[start:end + 1]
Slice(s, start, end) == SubSeq(s, start + 1, end + 1)

\* the nesting depth after the first i tokens
Depth(t, i) ==
    Cardinality({k \in 1..i : t[k] = "{"}) - Cardinality({k \in 1..i : t[k] = "}"})

\* json.loads: the document must be one object from its first to its last
\* character; white space between tokens is ignored, the value is the
\* object without it
json_loads(s) ==
    LET t == SelectSeq(s, LAMBDA c : c # " ")
    IN  IF /\ Len(t) >= 2
           /\ t[1] = "{"
           /\ \A i \in 1..Len(t) : t[i] # "w"
           /\ \A i \in 1..(Len(t) - 1) : Depth(t, i) > 0
           /\ Depth(t, Len(t)) = 0
        THEN [kind |-> "ok", value |-> t]
        ELSE [kind |-> "JSONDecodeError"]

\* lines 182-187: the fallback slicing
FallbackSlice(raw) ==
    IF ~startswith(raw, "{")
    THEN LET start == find(raw, "{")
             end == rfind(raw, "}")
         IN  IF start # -1 /\ end # -1 THEN Slice(raw, start, end) ELSE raw
    ELSE raw

extract_and_parse_json(raw_response, context_info) ==
    LET parsed == json_loads(FallbackSlice(strip(raw_response)))
    IN  IF parsed.kind = "ok"
        THEN [kind |-> "returned", result |-> parsed.value]
        ELSE [kind |-> "raised", error |-> "HTTPException", status |-> 502,
              detail |-> <<"LLM returned invalid JSON for", context_info>>]

InitJson ==
    /\ request \in {[kind |-> "extract_and_parse_json", raw_response |-> r,
                     context_info |-> c] :
                       r \in Responses, c \in {"topic 'A'", "topic 'B'"}}
    /\ pc = "parse"
    /\ outcome = [kind |-> "pending"]
    /\ agents_cache = {}
    /\ calls = NoCalls
    /\ counts = <<0, 0>>
    /\ InitRun

\* one call of extract_and_parse_json
ParseJson ==
    /\ pc = "parse"
    /\ outcome' = extract_and_parse_json(request.raw_response, request.context_info)
    /\ pc' = outcome'.kind
    /\ UNCHANGED <<request, agents_cache, calls, counts, topicVars, runVars, distVars, otherVars, csv>>

---------------------------------------------------------------------------
(* The question bank generation: QuestionGenerationService                 *)
(* ._generate_batch_questions (app/services/database/                      *)
(* question_generation_service.py), which calls                            *)
(* orchestrate_mixed_evaluation_optimized and then resolves the references *)
(* of the returned questions                                               *)

\* asyncio.Semaphore(10) of line 71, for the slices of REFERENCE_BATCH_SIZE
BULK_CONCURRENT_REFERENCES == 2

\* QUESTION_GENERATION_MCQ_WEIGHT and QUESTION_GENERATION_OPEN_WEIGHT (0.9, 0.1)
BulkRequests ==
    {[kind |-> "_generate_batch_questions", topics |-> t, num_questions |-> n,
      mcq_weight |-> 9000, open_weight |-> 1000, is_positioning |-> FALSE,
      modules_topics |-> EmptyDict] :
        t \in {<<"A">>, <<"A", "B">>}, n \in 1..MaxQuestions}

InitBulk ==
    /\ request \in BulkRequests
    /\ pc = "plan"
    /\ outcome = [kind |-> "pending"]
    /\ agents_cache \in {{}, {CacheKey}}
    /\ calls = NoCalls
    /\ counts = <<0, 0>>
    /\ InitRun

\* the questions whose references populate_references_parallel_memory_safe
\* has written in the call of line 72
Rewritten == {i \in Range(QuestionIdx) : tasks[i].writes >= 2}

\* the slice of the returned questions being fetched in the call of line 72
BulkSlice == RefSlice(QuestionIdx, Cardinality(Rewritten))

\* lines 61-72: the orchestrator has returned its questions, and
\* populate_references_parallel_memory_safe is called on them with a
\* semaphore of its own
BulkSecondPass ==
    /\ request.kind = "_generate_batch_questions"
    /\ pc = "gather"
    /\ \A b \in DOMAIN batches : batches[b].st = "returned"
    /\ pc' = "bulk_references"
    /\ ref_tasks' = [i \in DOMAIN ref_tasks |->
                       IF i \in RefSlice(QuestionIdx, 0) THEN "waiting" ELSE ref_tasks[i]]
    /\ reference_semaphore' = BULK_CONCURRENT_REFERENCES
    /\ UNCHANGED <<request, outcome, agents_cache, calls, counts, topicVars,
                   topics_and_types, tasks, batches, generation_semaphore>>
    /\ UNCHANGED <<distVars, otherVars, csv>>

\* the gather of the slice has returned: its references are written and the
\* next slice starts
BulkRefWrite ==
    /\ pc = "bulk_references"
    /\ BulkSlice # {}
    /\ \A i \in BulkSlice : ref_tasks[i] = "fetched"
    /\ tasks' = WithReferences(BulkSlice)
    /\ LET next == RefSlice(QuestionIdx, Cardinality(Rewritten) + Cardinality(BulkSlice))
       IN  ref_tasks' = [i \in DOMAIN ref_tasks |->
                           IF i \in BulkSlice THEN "written"
                           ELSE IF i \in next THEN "waiting"
                           ELSE ref_tasks[i]]
    /\ UNCHANGED <<reqVars, topicVars, topics_and_types, batches,
                   generation_semaphore, reference_semaphore>>
    /\ UNCHANGED <<distVars, otherVars, csv>>

\* lines 74-77: the questions whose text was not met before
Dedupe(questions) ==
    LET kept == Ascending({j \in DOMAIN questions :
                    \A k \in 1..(j - 1) : questions[k][1] # questions[j][1]})
    IN  [n \in 1..Len(kept) |-> questions[kept[n]]]

\* lines 74-79: every slice is written and the batch is returned
BulkReturn ==
    /\ pc = "bulk_references"
    /\ BulkSlice = {}
    /\ pc' = "returned"
    /\ outcome' = Returned(Dedupe(AllQuestions))
    /\ UNCHANGED <<request, agents_cache, calls, counts, topicVars, runVars>>
    /\ UNCHANGED <<distVars, otherVars, csv>>

\* a reference fetch of the slice has failed: the gather of line 496 raises
BulkRaise ==
    /\ pc = "bulk_references"
    /\ \E i \in BulkSlice : ref_tasks[i] = "failed"
    /\ pc' = "raised"
    /\ outcome' = Raised("HTTPException")
    /\ UNCHANGED <<request, agents_cache, calls, counts, topicVars, runVars>>
    /\ UNCHANGED <<distVars, otherVars, csv>>

NextBulk ==
    \/ Plan
    \/ PlanDraw
    \/ StartBatches
    \/ \E i \in DOMAIN tasks : TaskAcquire(i)
    \/ \E i \in DOMAIN tasks : ContextDone(i)
    \/ \E i \in DOMAIN tasks : GenerationDone(i)
    \/ \E b \in DOMAIN batches : BatchGenerated(b)
    \/ \E b \in DOMAIN batches : BatchRaise(b)
    \/ \E i \in DOMAIN ref_tasks : RefAcquire(i)
    \/ \E i \in DOMAIN ref_tasks : RefDone(i)
    \/ \E b \in DOMAIN batches : RefWrite(b)
    \/ Raise
    \/ BulkSecondPass
    \/ BulkRefWrite
    \/ BulkReturn
    \/ BulkRaise

---------------------------------------------------------------------------
(* The shared agent cache of app/state.py under concurrent                 *)
(* get_agent_for_course calls.  An agent is the record of its build.       *)

NumCallers == 3

Callers == 1..NumCallers

NoCaller == 0

\* cache_key = course_filter or "all"
CourseKeys == {"all", "course1"}

NoAgent == [key |-> "None", builder |-> NoCaller]

IdleState ==
    /\ callers = <<>>
    /\ lock = NoCaller
    /\ agent_of = <<>>

InitState ==
    /\ callers \in [Callers -> {[key |-> k, pc |-> "start", got |-> NoAgent, built |-> FALSE] :
                                   k \in CourseKeys}]
    /\ lock = NoCaller
    /\ agent_of = <<>>

\* agents_cache.get(cache_key)
CacheGet(cache, key) == IF key \in DOMAIN cache THEN cache[key] ELSE NoAgent

\* agents_cache[cache_key] = agent
CacheSet(cache, key, agent) ==
    [k \in DOMAIN cache \cup {key} |-> IF k = key THEN agent ELSE cache[k]]

StateFrame ==
    UNCHANGED <<distVars, topicVars, reqVars, runVars, csv, bank, resolution, course_progress,
                redis>>

\* get_agent_for_course, lines 63-68: a cached agent is returned at once;
\* otherwise the caller goes for _lock
CheckCache(c) ==
    /\ callers[c].pc = "start"
    /\ callers' = [callers EXCEPT ![c] =
                     IF callers[c].key \in DOMAIN agent_of
                     THEN [@ EXCEPT !.pc = "done",
                                    !.got = CacheGet(agent_of, callers[c].key)]
                     ELSE [@ EXCEPT !.pc = "wait_lock"]]
    /\ UNCHANGED <<lock, agent_of>>
    /\ StateFrame

\* _build_agent_for_course without the look-up under the lock
AcquireLock_NoRecheck(c) ==
    /\ callers[c].pc = "wait_lock"
    /\ lock = NoCaller
    /\ lock' = c
    /\ callers' = [callers EXCEPT ![c].pc = "loading"]
    /\ UNCHANGED agent_of
    /\ StateFrame

\* _build_agent_for_course, lines 81-89: under _lock the cache is looked up
\* again; on a hit the call returns (and get_agent_for_course returns the
\* cached agent), otherwise the tools are loaded with the lock held
AcquireLock(c) ==
    /\ callers[c].pc = "wait_lock"
    /\ lock = NoCaller
    /\ IF callers[c].key \in DOMAIN agent_of
       THEN /\ callers' = [callers EXCEPT ![c].pc = "done",
                                          ![c].got = CacheGet(agent_of, callers[c].key)]
            /\ UNCHANGED lock
       ELSE /\ callers' = [callers EXCEPT ![c].pc = "loading"]
            /\ lock' = c
    /\ UNCHANGED agent_of
    /\ StateFrame

\* lines 89-101 and 68: the tools are loaded, the agent is built and cached,
\* the lock is released and the caller gets agents_cache.get(cache_key); or
\* the loading raises and the lock is released
BuildDone(c) ==
    /\ callers[c].pc = "loading"
    /\ lock' = NoCaller
    /\ \/ LET agent == [key |-> callers[c].key, builder |-> c]
             cache == CacheSet(agent_of, callers[c].key, agent)
          IN  /\ agent_of' = cache
              /\ callers' = [callers EXCEPT ![c].pc = "done", ![c].built = TRUE,
                                            ![c].got = CacheGet(cache, callers[c].key)]
       \/ /\ callers' = [callers EXCEPT ![c].pc = "raised"]
          /\ UNCHANGED agent_of
    /\ StateFrame

NextState ==
    \/ \E c \in Callers : CheckCache(c)
    \/ \E c \in Callers : AcquireLock(c)
    \/ \E c \in Callers : BuildDone(c)

---------------------------------------------------------------------------
(* QuestionGenerationService.generate_module_questions, run for both       *)
(* languages at once (generate_module_questions_both_languages)            *)

\* app/config.py: QUESTIONS_PER_MODULE = 50 and QUESTION_BATCH_SIZE = 5; the
\* loop of generate_module_questions stops after max_iterations = 20
QUESTIONS_PER_MODULE == 3

QUESTION_BATCH_SIZE == 2

MAX_ITERATIONS == 3

Languages == {"French", "English"}

\* the texts the LLM writes: `form` is the text as written, `norm` what
\* str(text).strip().lower() makes of it
QuestionTexts ==
    { [norm |-> "q1", form |-> "q1"], [norm |-> "q1", form |-> " Q1 "],
      [norm |-> "q2", form |-> "q2"], [norm |-> "q3", form |-> "q3"] }

\* a hash of the text as written
hash_question_Raw(question, language) == <<language, question[1].form>>

\* _hash_question, lines 34-37: sha256 of language and normalized text
hash_question(question, language) == <<language, question[1].norm>>

\* lines 74-77 with _is_duplicate (lines 39-45): the questions not met
\* before, and the hashes afterwards
RECURSIVE FilterDuplicates(_, _, _)
FilterDuplicates(questions, language, hashes) ==
    IF questions = <<>> THEN [flat_questions |-> <<>>, hashes |-> hashes]
    ELSE LET h == hash_question(Head(questions), language)
             rest == FilterDuplicates(Tail(questions), language, hashes \cup {h})
         IN  IF h \in hashes THEN rest
             ELSE [rest EXCEPT !.flat_questions = <<Head(questions)>> \o @]

\* what orchestrate_mixed_evaluation_optimized can return for batch_size
\* pairs: at most one question per pair, of any text
OrchestratorResults(batch_size) ==
    UNION {[1..n -> {MCQ(t) : t \in QuestionTexts}] : n \in 0..batch_size}

IdleBank == bank = [kind |-> "idle"]

InitBank ==
    bank = [kind |-> "generate_module_questions_both_languages",
            generated_hashes |-> [l \in Languages |-> {}],
            runs |-> [l \in Languages |->
                        [pc |-> "loop", iterations |-> 0, all_questions |-> <<>>,
                         batch |-> "none", result |-> <<>>]]]

\* line 95: the loop goes on
LoopContinues(run) ==
    Len(run.all_questions) < QUESTIONS_PER_MODULE /\ run.iterations < MAX_ITERATIONS

\* a failing batch that empties the list accumulated so far
BatchFailed_Discards(run) ==
    [run EXCEPT !.iterations = @ + 1, !.batch = "failed", !.all_questions = <<>>]

\* lines 107-111: the exception of a batch is logged and the loop goes on
\* (batch is the outcome of the latest batch)
BatchFailed(run) ==
    [run EXCEPT !.iterations = @ + 1, !.batch = "failed"]

BankFrame ==
    UNCHANGED <<distVars, topicVars, reqVars, runVars, csv, stateVars, resolution,
                course_progress, redis>>

\* lines 95-111: one iteration of the loop of language l: the batch raises, or
\* its questions are filtered and appended
GenerateBatch(l) ==
    /\ bank.kind # "idle"
    /\ bank.runs[l].pc = "loop"
    /\ LoopContinues(bank.runs[l])
    /\ LET run == bank.runs[l]
           remaining == QUESTIONS_PER_MODULE - Len(run.all_questions)
           batch_size == Min(QUESTION_BATCH_SIZE, remaining)
       IN  \/ bank' = [bank EXCEPT !.runs[l] = BatchFailed(run)]
           \/ \E questions \in OrchestratorResults(batch_size) :
                 LET kept == FilterDuplicates(questions, l, bank.generated_hashes[l])
                 IN  bank' = [bank EXCEPT
                                !.generated_hashes[l] = kept.hashes,
                                !.runs[l] = [run EXCEPT
                                    !.iterations = @ + 1,
                                    !.batch = "extended",
                                    !.all_questions = @ \o kept.flat_questions]]
    /\ BankFrame

\* line 114: return all_questions[:QUESTIONS_PER_MODULE]
ReturnModule(l) ==
    /\ bank.kind # "idle"
    /\ bank.runs[l].pc = "loop"
    /\ ~LoopContinues(bank.runs[l])
    /\ bank' = [bank EXCEPT !.runs[l].pc = "returned",
                            !.runs[l].result =
                                SubSeq(bank.runs[l].all_questions, 1,
                                       Min(QUESTIONS_PER_MODULE, Len(bank.runs[l].all_questions)))]
    /\ BankFrame

NextBank ==
    \/ \E l \in Languages : GenerateBatch(l)
    \/ \E l \in Languages : ReturnModule(l)

---------------------------------------------------------------------------
(* fetch_references_for_question and format_and_merge_refs                 *)
(* A string is a sequence of tokens; "/", ":", "_", " " and the extensions *)
(* are tokens of their own, a digit is a token, any other token is a word  *)
(* without separator.                                                      *)

MaxNodes == 3

Extensions == {".pdf", ".docx"}

\* metadata["file_name"] of the indexed documents: the names of uploaded files
FileNames ==
    { <<"Chap", "_", "1", ".pdf">>,
      <<"docs", "/", "Chap", "_", "1", ".pdf">>,
      <<"Chap", " ", "1", ".docx">>,
      <<"Intro", ":", "a", ".pdf">>,
      <<"Intro", ":", "b", ".pdf">> }

\* metadata["page_label"]: chunk_<idx> as parse_utils._decorate writes it, or
\* nothing
PageLabels ==
    { <<"chunk", "_", "2">>, <<"chunk", "_", "1", "0">>, <<>> }

SourceNodes == [file_name : FileNames, page_label : PageLabels]

\* the positions of token c in s
Positions(s, c) == {i \in DOMAIN s : s[i] = c}

Max(S) == CHOOSE x \in S : \A y \in S : y <= x

Minimum(S) == CHOOSE x \in S : \A y \in S : x <= y

\* s.split(sep)[-1]
SplitLast(s, sep) ==
    IF Positions(s, sep) = {} THEN s
    ELSE SubSeq(s, Max(Positions(s, sep)) + 1, Len(s))

\* s.split(sep, 1) of a string that holds sep
SplitFirst(s, sep) ==
    LET i == Minimum(Positions(s, sep))
    IN  <<SubSeq(s, 1, i - 1), SubSeq(s, i + 1, Len(s))>>

\* os.path.splitext(s)[0]: s up to its last extension
splitext_root(s) ==
    LET dots == {i \in DOMAIN s : s[i] \in Extensions}
    IN  IF dots = {} \/ Max(dots \cup {0}) = 1 THEN s
        ELSE SubSeq(s, 1, Max(dots) - 1)

\* s.replace("_", " ")
ReplaceUnderscores(s) == [i \in DOMAIN s |-> IF s[i] = "_" THEN " " ELSE s[i]]

DigitValue(d) == CHOOSE n \in 0..9 : ToString(n) = d

\* int(s) of a string of digits (the pages of chunk_<idx> labels are)
RECURSIVE int(_)
int(s) ==
    IF s = <<>> THEN 0
    ELSE 10 * int(SubSeq(s, 1, Len(s) - 1)) + DigitValue(s[Len(s)])

\* list(dict.fromkeys(xs)): the first occurrence of each element, in order
RECURSIVE DictFromKeys(_)
DictFromKeys(xs) ==
    IF xs = <<>> THEN <<>>
    ELSE LET init == DictFromKeys(SubSeq(xs, 1, Len(xs) - 1))
             last == xs[Len(xs)]
         IN  IF last \in Range(init) THEN init ELSE Append(init, last)

\* lines 132-139: the raw references of the source nodes
RECURSIVE RawRefs(_)
RawRefs(nodes) ==
    IF nodes = <<>> THEN <<>>
    ELSE LET fname == SplitLast(Head(nodes).file_name, "/")
             plabel == Head(nodes).page_label
         IN  (IF fname # <<>> /\ plabel # <<>>
                 THEN <<fname \o <<":">> \o plabel>> ELSE <<>>)
             \o RawRefs(Tail(nodes))

\* lines 153-156: title and page of one raw reference
RefTitle(rr) == ReplaceUnderscores(splitext_root(SplitFirst(rr, ":")[1]))

RefPage(rr) == SplitLast(SplitFirst(rr, ":")[2], "_")

\* lines 152-157: grouped, as the list of its items in insertion order
RECURSIVE Grouped(_)
Grouped(raw_refs) ==
    IF raw_refs = <<>> THEN <<>>
    ELSE LET init == Grouped(SubSeq(raw_refs, 1, Len(raw_refs) - 1))
             rr == raw_refs[Len(raw_refs)]
         IN  IF \E i \in DOMAIN init : init[i].title = RefTitle(rr)
             THEN [i \in DOMAIN init |->
                     IF init[i].title = RefTitle(rr)
                     THEN [init[i] EXCEPT !.pages = Append(@, RefPage(rr))]
                     ELSE init[i]]
             ELSE Append(init, [title |-> RefTitle(rr), pages |-> <<RefPage(rr)>>])

\* sorted(S, key=int) of a set of numeric strings with different values
SortedByInt(S) ==
    CHOOSE sq \in [1..Cardinality(S) -> S] :
        /\ Range(sq) = S
        /\ \A i, j \in DOMAIN sq : i < j => int(sq[i]) < int(sq[j])

\* ', '.join(pages)
RECURSIVE JoinPages(_)
JoinPages(pages) ==
    IF pages = <<>> THEN <<>>
    ELSE IF Len(pages) = 1 THEN pages[1]
    ELSE pages[1] \o <<",", " ">> \o JoinPages(Tail(pages))

\* line 161: f"{title}, Page {', '.join(unique)}"
MergedRef(title, unique) == title \o <<",", " ", "Page", " ">> \o JoinPages(unique)

\* lines 159-161
format_and_merge_refs(raw_refs) ==
    LET grouped == Grouped(raw_refs)
    IN  [i \in DOMAIN grouped |->
            MergedRef(grouped[i].title, SortedByInt(Range(grouped[i].pages)))]

IdleRefs == resolution = [pc |-> "idle"]

\* agent.query has returned its source nodes
InitRefs ==
    \E n \in 0..MaxNodes :
        \E nodes \in [1..n -> SourceNodes] :
            resolution = [pc |-> "query", source_nodes |-> nodes,
                    raw_refs |-> <<>>, merged |-> <<>>]

RefsFrame ==
    UNCHANGED <<distVars, topicVars, reqVars, runVars, csv, stateVars, bank, course_progress,
                redis>>

\* fetch_references_for_question, lines 131-142
FetchReferences ==
    /\ resolution.pc = "query"
    /\ resolution' = [resolution EXCEPT
                        !.pc = "fetched",
                        !.raw_refs = DictFromKeys(RawRefs(resolution.source_nodes))]
    /\ RefsFrame

\* format_and_merge_refs on the fetched list (lines 465-467)
FormatReferences ==
    /\ resolution.pc = "fetched"
    /\ resolution' = [resolution EXCEPT !.pc = "formatted",
                                      !.merged = format_and_merge_refs(resolution.raw_refs)]
    /\ RefsFrame

NextRefs == FetchReferences \/ FormatReferences

---------------------------------------------------------------------------
(* ProgressionService.update_module_progress on the course of one user     *)

NumModules == 3

\* the calls followed
MaxUpdates == 3

\* app/config.py line 64
MODULE_UNLOCK_THRESHOLD == 57

\* a module is named by its position in modules_status: 1..NumModules

Scores == {40, 57, 90}

\* best_mixed_score is None (<<>>) or a score (<<score>>)
NoScore == <<>>

\* a percentage completed / total * 100, as the fraction it is
Percentage(completed, total) == <<completed * 100, total>>

IdleProgress == course_progress = [kind |-> "none"]

\* initialize_user_progression, lines 86-106
InitProgress ==
    \E auto_unlock \in BOOLEAN :
        course_progress =
            [kind |-> "CourseProgress",
             modules_status |->
                [m \in 1..NumModules |->
                    [status |-> IF m = 1 /\ auto_unlock THEN "unlocked" ELSE "locked",
                     best_mixed_score |-> NoScore,
                     mixed_evaluation_passed |-> FALSE,
                     total_attempts |-> 0]],
             total_modules |-> NumModules,
             unlocked_modules |-> IF auto_unlock THEN 1 ELSE 0,
             completed_modules |-> 0,
             overall_progress |-> Percentage(0, NumModules),
             updates |-> 0]

\* _get_module_order_map, lines 120-152: the orders 1..n of the modules, or
\* the empty map
ModuleOrderMaps == {[m \in 1..NumModules |-> m], <<>>}

\* lines 274-291: the module that follows module_name
NextModuleName(module_order_map, module_name) ==
    LET current_order == IF module_name \in DOMAIN module_order_map
                         THEN module_order_map[module_name] ELSE 999
        by_order == {m \in DOMAIN module_order_map :
                        module_order_map[m] = current_order + 1}
    IN  IF by_order # {} THEN CHOOSE m \in by_order : TRUE
        ELSE IF module_name < NumModules THEN module_name + 1
        ELSE 0

\* lines 262-265: attempts and best score
Attempted(module_status, mixed_score) ==
    [module_status EXCEPT
        !.total_attempts = @ + 1,
        !.best_mixed_score =
            IF @ = NoScore THEN <<mixed_score>>
            ELSE IF @[1] = 0 \/ mixed_score > @[1] THEN <<mixed_score>> ELSE @]

\* lines 267-272: a passed evaluation; the status is set before it is tested
Passed(cp, module_name) ==
    LET status_set == [cp EXCEPT
                         !.modules_status[module_name].mixed_evaluation_passed = TRUE,
                         !.modules_status[module_name].status = "completed"]
    IN  IF status_set.modules_status[module_name].status # "completed"
        THEN [status_set EXCEPT !.completed_modules = @ + 1]
        ELSE status_set

\* lines 293-299: the next module is unlocked
UnlockNext(cp, next_module_name) ==
    IF next_module_name \in DOMAIN cp.modules_status
       /\ cp.modules_status[next_module_name].status = "locked"
    THEN [cp EXCEPT !.modules_status[next_module_name].status = "unlocked",
                    !.unlocked_modules = @ + 1]
    ELSE cp

ProgressFrame ==
    UNCHANGED <<distVars, topicVars, reqVars, runVars, csv, stateVars, bank, resolution,
                redis>>

\* update_module_progress(user_id, course_name, module_name, mixed_score)
update_module_progress(module_name, mixed_score) ==
    /\ course_progress.kind = "CourseProgress"
    /\ course_progress.updates < MaxUpdates
    /\ \E module_order_map \in ModuleOrderMaps :
         LET attempted == [course_progress EXCEPT
                             !.modules_status[module_name] = Attempted(@, mixed_score),
                             !.updates = @ + 1]
             scored == IF mixed_score >= MODULE_UNLOCK_THRESHOLD
                       THEN UnlockNext(Passed(attempted, module_name),
                                       NextModuleName(module_order_map, module_name))
                       ELSE [attempted EXCEPT
                               !.modules_status[module_name].status = "in_progress"]
         IN  course_progress' =
                 [scored EXCEPT !.overall_progress =
                     Percentage(scored.completed_modules, scored.total_modules)]
    /\ ProgressFrame

NextProgress ==
    \E module_name \in 1..NumModules, mixed_score \in Scores :
        update_module_progress(module_name, mixed_score)

---------------------------------------------------------------------------
(* AuthService: create_tokens, refresh_access_token, verify_token and      *)
(* revoke_all_tokens over the Redis store                                  *)

\* the tokens issued in a behaviour; a token is named by its serial number
MaxTokens == 4

Users == {"u1", "u2"}

IdleAuth == redis = [kind |-> "none"]

\* the store after AuthService.__init__, no key set
InitAuth ==
    redis = [kind        |-> "redis",
             token       |-> {},
             refresh     |-> {},
             user_tokens |-> [u \in Users |-> {}],
             issued      |-> {},
             revoked     |-> {}]

\* the token_data stored under a key (lines 92-100)
TokenData(key, user_id, access_token, refresh_token, is_revoked) ==
    [key |-> key, user_id |-> user_id, access_token |-> access_token,
     refresh_token |-> refresh_token, is_revoked |-> is_revoked]

\* redis_client.get(key): the entries stored under the key (none or one)
Get(entries, key) == {d \in entries : d.key = key}

\* pipeline.set(key, value): the entry of the key is replaced
Set(entries, data) == {d \in entries : d.key # data.key} \cup {data}

NextSerial == Cardinality(redis.issued) + 1

\* a credential handed to a user
Credential(kind, serial, user_id) == [kind |-> kind, serial |-> serial, sub |-> user_id]

AuthFrame ==
    UNCHANGED <<distVars, topicVars, reqVars, runVars, csv, stateVars, bank, resolution,
                course_progress>>

\* create_tokens(user_id), lines 68-128
create_tokens(user_id) ==
    /\ redis.kind = "redis"
    /\ NextSerial + 1 <= MaxTokens
    /\ LET access_token  == NextSerial
           refresh_token == NextSerial + 1
       IN  redis' = [redis EXCEPT
              !.token = Set(@, TokenData(access_token, user_id, access_token,
                                         refresh_token, FALSE)),
              !.refresh = Set(@, TokenData(refresh_token, user_id, access_token,
                                           refresh_token, FALSE)),
              !.user_tokens[user_id] = @ \cup {access_token},
              !.issued = @ \cup {Credential("access", access_token, user_id),
                                 Credential("refresh", refresh_token, user_id)}]
    /\ AuthFrame

\* refresh_access_token accepts the refresh token (lines 141-163)
RefreshAccepted(refresh_token) ==
    \E d \in Get(redis.refresh, refresh_token) : ~d.is_revoked

\* refresh_access_token(refresh_token), lines 130-200, for a token it accepts
refresh_access_token(refresh_token) ==
    /\ redis.kind = "redis"
    /\ NextSerial <= MaxTokens
    /\ RefreshAccepted(refresh_token)
    /\ \E d \in Get(redis.refresh, refresh_token) :
         LET new_access_token == NextSerial
         IN  redis' = [redis EXCEPT
                !.token = Set(@, [d EXCEPT !.key = new_access_token,
                                           !.access_token = new_access_token]),
                !.user_tokens[d.user_id] = @ \cup {new_access_token},
                !.issued = @ \cup {Credential("access", new_access_token, d.user_id)}]
    /\ AuthFrame

\* verify_token accepts the access token (lines 213-228)
VerifyAccepted(token) ==
    \E d \in Get(redis.token, token) : ~d.is_revoked

\* revoke_all_tokens(user_id), lines 238-273, when it returns True
revoke_all_tokens(user_id) ==
    /\ redis.kind = "redis"
    /\ redis.user_tokens[user_id] # {}
    /\ redis' = [redis EXCEPT
          !.token = {IF d.key \in redis.user_tokens[user_id]
                     THEN [d EXCEPT !.is_revoked = TRUE] ELSE d : d \in @},
          !.user_tokens[user_id] = {},
          !.revoked = @ \cup {c \in redis.issued : c.sub = user_id}]
    /\ AuthFrame

\* the time to live of a key set with ex= runs out (lines 105-107, 181)
ExpireKey ==
    /\ redis.kind = "redis"
    /\ \/ \E d \in redis.token :
            /\ ~d.is_revoked
            /\ redis' = [redis EXCEPT !.token = @ \ {d}]
       \/ \E d \in redis.refresh :
            redis' = [redis EXCEPT !.refresh = @ \ {d}]
    /\ AuthFrame

NextAuth ==
    \/ \E user_id \in Users : create_tokens(user_id)
    \/ \E refresh_token \in 1..MaxTokens : refresh_access_token(refresh_token)
    \/ \E user_id \in Users : revoke_all_tokens(user_id)
    \/ ExpireKey

IdleOther == IdleState /\ IdleBank /\ IdleRefs /\ IdleProgress /\ IdleAuth

---------------------------------------------------------------------------
(* parse_llm_response over the answers of one batch: the results that      *)
(* generate_questions_batch gathers, and their concatenation               *)

\* the most pairs in the batch, and the most questions in one answer
MaxBatchPairs == 2

MaxPayloadQuestions == 3

\* the answers to the prompt of one pair
ParseResponses ==
    { NotJson, NoQuestionsKey, QuestionsNotAList }
    \cup
    { Payload([k \in 1..n |-> QuestionOfType(<<"A", k>>, type)]) :
        n \in 0..MaxPayloadQuestions, type \in {"mcq", "open"} }

InitParse ==
    /\ request \in {[kind |-> "generate_questions_batch", responses |-> r] :
                       r \in UNION {[1..n -> ParseResponses] : n \in 1..MaxBatchPairs}}
    /\ pc = "parse_llm"
    /\ outcome = [kind |-> "pending", results |-> <<>>]
    /\ agents_cache = {}
    /\ calls = NoCalls
    /\ counts = <<0, 0>>
    /\ InitRun

\* generate_single_question returns parse_llm_response of the next answer, or
\* the parse raises and the gather of the batch raises with it
ParseNext ==
    /\ pc = "parse_llm"
    /\ Len(outcome.results) < Len(request.responses)
    /\ LET parsed == parse_llm_response(request.responses[Len(outcome.results) + 1])
       IN  IF parsed.kind = "ok"
           THEN /\ outcome' = [outcome EXCEPT !.results = Append(@, parsed.questions)]
                /\ UNCHANGED pc
           ELSE /\ outcome' = Raised(parsed.kind)
                /\ pc' = "raised"
    /\ UNCHANGED <<request, agents_cache, calls, counts, topicVars, runVars>>
    /\ UNCHANGED <<distVars, otherVars, csv>>

\* lines 414-416: batch_questions, the concatenation of the gathered lists
BatchFlatten ==
    /\ pc = "parse_llm"
    /\ Len(outcome.results) = Len(request.responses)
    /\ outcome' = [kind |-> "returned", results |-> outcome.results,
                   result |-> [questions |-> Concat(outcome.results)]]
    /\ pc' = "returned"
    /\ UNCHANGED <<request, agents_cache, calls, counts, topicVars, runVars>>
    /\ UNCHANGED <<distVars, otherVars, csv>>

NextParse == ParseNext \/ BatchFlatten

---------------------------------------------------------------------------
(* The specifications *)

InitSpecDist == InitDist /\ IdleTopic /\ IdleRequest /\ IdleCsv /\ IdleOther

SpecDist == InitSpecDist /\ [][Distribute]_vars

InitSpecTopic == InitTopic /\ IdleDist /\ IdleCall /\ IdleCsv /\ IdleOther

SpecTopic == InitSpecTopic /\ [][Draw]_vars

InitSpecPos == InitPos /\ IdleDist /\ IdleCall /\ IdleCsv /\ IdleOther

SpecPos == InitSpecPos /\ [][Draw]_vars

\* one call of evaluate_standard or evaluate_mixed
Next == NextMixed \/ StandardReturn

Init == InitRequest /\ IdleDist /\ IdleTopic /\ IdleCsv /\ IdleOther

Spec == Init /\ [][Next]_vars

\* one call of evaluate_standard or evaluate_mixed while other requests clear
\* and rebuild the agent cache
NextShared == Next \/ ClearCourseCache \/ BuildByOtherRequest

InitSpecShared == InitRequest /\ IdleDist /\ IdleTopic /\ IdleCsv /\ IdleOther

SpecShared == InitSpecShared /\ [][NextShared]_vars

InitSpecSelect == InitSelect /\ IdleDist /\ IdleTopic /\ IdleOther

SpecSelect == InitSpecSelect /\ [][Select]_vars

\* one call of evaluate_mixed_from_csv
InitSpecJson == InitJson /\ IdleDist /\ IdleTopic /\ IdleCsv /\ IdleOther

SpecJson == InitSpecJson /\ [][ParseJson]_vars

InitSpecBulk == InitBulk /\ IdleDist /\ IdleTopic /\ IdleCsv /\ IdleOther

SpecBulk == InitSpecBulk /\ [][NextBulk]_vars

InitSpecState == InitState /\ IdleBank /\ IdleRefs /\ IdleProgress /\ IdleAuth /\ IdleDist /\ IdleTopic /\ IdleRequest /\ IdleCsv

InitSpecBank == InitBank /\ IdleState /\ IdleRefs /\ IdleProgress /\ IdleAuth /\ IdleDist /\ IdleTopic /\ IdleRequest /\ IdleCsv

SpecBank == InitSpecBank /\ [][NextBank]_vars

\* every loop iteration and every return that can be taken is taken
FairSpecBank == SpecBank /\ WF_vars(NextBank)

InitSpecRefs == InitRefs /\ IdleState /\ IdleBank /\ IdleProgress /\ IdleAuth /\ IdleDist /\ IdleTopic /\ IdleRequest /\ IdleCsv

SpecRefs == InitSpecRefs /\ [][NextRefs]_vars

InitSpecProgress ==
    /\ InitProgress
    /\ IdleState /\ IdleBank /\ IdleRefs /\ IdleAuth
    /\ IdleDist /\ IdleTopic /\ IdleRequest /\ IdleCsv

SpecProgress == InitSpecProgress /\ [][NextProgress]_vars

InitSpecAuth ==
    /\ InitAuth
    /\ IdleState /\ IdleBank /\ IdleRefs /\ IdleProgress
    /\ IdleDist /\ IdleTopic /\ IdleRequest /\ IdleCsv

SpecAuth == InitSpecAuth /\ [][NextAuth]_vars

SpecState == InitSpecState /\ [][NextState]_vars

InitSpecParse == InitParse /\ IdleDist /\ IdleTopic /\ IdleCsv /\ IdleOther

SpecParse == InitSpecParse /\ [][NextParse]_vars

NextCsv == CsvLoad \/ CsvSelect \/ CsvFallback \/ NextMixed

InitSpecCsv == InitCsvRequest /\ IdleDist /\ IdleTopic /\ IdleOther

SpecCsv == InitSpecCsv /\ [][NextCsv]_vars

---------------------------------------------------------------------------
(* Claims about distribute_question_counts (SpecDist) *)

DistValidWeights == WeightsInRange(dq_weights[1], dq_weights[2])
                    /\ WeightsSumToOne(dq_weights[1], dq_weights[2])

\* C5: for every N >= 0 and every pair of weights in [0,1] that the weight
\* validation accepts, distribute_question_counts returns (it does not fail)
\* two non-negative integers whose sum is exactly N.
C5_CountConservation ==
    (dq_result.kind \notin {"pending", "idle"} /\ DistValidWeights) =>
        /\ dq_result.kind = "ok"
        /\ \A i \in 1..2 : dq_result.counts[i] >= 0
        /\ dq_result.counts[1] + dq_result.counts[2] = dq_num_questions

---------------------------------------------------------------------------
(* Claims about TopicManager (SpecTopic) *)

IsTopicManager == topic_manager.kind = "TopicManager"

\* the topics returned by draws i .. i+n-1, as a sequence
DrawnTopics(i, n) == [k \in 1..n |-> draws[i + k - 1].topic]

\* a draw that starts a pool cycle: the first one, or one that refilled the pool
StartsCycle(i) == i = 1 \/ draws[i].reset

C8_Permutation ==
    (IsTopicManager /\ IsDistinct(topic_manager.original_topics)) =>
        LET n == Len(topic_manager.original_topics)
        IN  \A i \in DOMAIN draws :
                (StartsCycle(i) /\ i + n - 1 <= Len(draws)) =>
                    /\ IsDistinct(DrawnTopics(i, n))
                    /\ Range(DrawnTopics(i, n)) = Range(topic_manager.original_topics)

C8_RefillOnlyWhenEmpty ==
    (IsTopicManager /\ Len(topic_manager'.available_topics) >= Len(topic_manager.available_topics)) =>
        /\ topic_manager.available_topics = <<>>
        /\ Len(draws') = Len(draws) + 1

\* C8: for a TopicManager over N distinct topics, the N consecutive draws that
\* start at construction or right after a pool reset return each of the N
\* topics exactly once, and the pool is refilled only by a draw that finds it
\* empty.
C8_NoReplacement == [](C8_Permutation) /\ [][C8_RefillOnlyWhenEmpty]_vars

\* C8 witness: three distinct topics, two full cycles drawn, the second one
\* started by a refill.
C8_Witness ==
    /\ IsTopicManager
    /\ Len(topic_manager.original_topics) = 3
    /\ IsDistinct(topic_manager.original_topics)
    /\ Len(draws) >= 6
    /\ draws[4].reset

\* C10 as stated: over at least two distinct topics, no two consecutive draws
\* return the same topic, the pair around a pool reset included.
C10_NoConsecutiveRepeat ==
    (IsTopicManager /\ IsDistinct(topic_manager.original_topics)
        /\ Len(topic_manager.original_topics) >= 2) =>
        \A i \in 1..(Len(draws) - 1) : draws[i].topic # draws[i + 1].topic

\* C10 amended: over a list of at least two topics without duplicates, two
\* consecutive draws return the same topic only when the second of them is
\* the draw that refilled the pool.
C10_RepeatOnlyAcrossReset ==
    (IsTopicManager /\ IsDistinct(topic_manager.original_topics)
        /\ Len(topic_manager.original_topics) >= 2) =>
        \A i \in 1..(Len(draws) - 1) :
            draws[i].topic = draws[i + 1].topic => draws[i + 1].reset

\* C10 witness: the last draw of a cycle and the first of the next one return
\* the same topic.
C10_Witness ==
    /\ IsTopicManager
    /\ IsDistinct(topic_manager.original_topics)
    /\ Len(topic_manager.original_topics) >= 2
    /\ \E i \in 1..(Len(draws) - 1) :
        draws[i].topic = draws[i + 1].topic /\ draws[i + 1].reset

\* the number of times x occurs in the list s
Occurrences(s, x) == Cardinality({i \in DOMAIN s : s[i] = x})

\* the draw that opened the current pool cycle: the last one that reset the
\* pool, or the first one
CycleStart ==
    LET resets == {i \in DOMAIN draws : draws[i].reset}
    IN  IF resets = {} THEN 1 ELSE CHOOSE i \in resets : \A j \in resets : j <= i

\* exhausted: the topics drawn since the last reset
Exhausted == [k \in 1..(Len(draws) - CycleStart + 1) |-> draws[CycleStart + k - 1].topic]

C23_Pool ==
    (IsTopicManager /\ topic_manager.original_topics # <<>>) =>
        /\ request.topics = topic_manager.original_topics
        /\ \A t \in Range(topic_manager.original_topics) \cup Range(topic_manager.available_topics)
                      \cup Range(Exhausted) :
              /\ Occurrences(topic_manager.available_topics, t)
                    <= Occurrences(topic_manager.original_topics, t)
              /\ Occurrences(topic_manager.available_topics, t) + Occurrences(Exhausted, t)
                    = Occurrences(topic_manager.original_topics, t)

C23_Step ==
    IsTopicManager =>
        /\ topic_manager'.original_topics = topic_manager.original_topics
        /\ request' = request
        /\ draws'[Len(draws')].reset => topic_manager.available_topics = <<>>
        /\ topic_manager.available_topics # <<>> =>
              \A t \in Range(topic_manager'.available_topics) :
                  Occurrences(topic_manager'.available_topics, t)
                      <= Occurrences(topic_manager.available_topics, t)

\* C23: in every reachable state of a TopicManager the available pool is a
\* sub-collection of the original topics, the original topics and the
\* caller's list are never modified, available and exhausted (the topics
\* drawn since the last reset) make up the original topics, and the pool is
\* reset only inside a draw that finds it empty.
C23_PoolInvariant == [](C23_Pool) /\ [][C23_Step]_vars

\* a list with a topic twice, in its second cycle, with topics both drawn
\* and still to draw
C23_Witness ==
    /\ IsTopicManager
    /\ ~IsDistinct(topic_manager.original_topics)
    /\ CycleStart > 1
    /\ topic_manager.available_topics # <<>>
    /\ Len(Exhausted) >= 2

---------------------------------------------------------------------------
(* Claims about PositioningTopicManager (SpecPos) *)

IsPositioning == topic_manager.kind = "PositioningTopicManager"

DrawnModules(i, n) == {draws[k].module : k \in i..(i + n - 1)}

\* C9 as stated: over M modules with at least one topic each, any M
\* consecutive draws, at any offset, contain a draw from every module.
C9_AnyWindow ==
    IsPositioning =>
        LET mods == DOMAIN topic_manager.module_managers
            m    == Cardinality(mods)
        IN  \A i \in DOMAIN draws :
                i + m - 1 <= Len(draws) => DrawnModules(i, m) = mods

\* C9 amended: the M consecutive draws that start at construction or at a
\* module-pool reset contain a draw from every module.
C9_CycleWindow ==
    IsPositioning =>
        LET mods == DOMAIN topic_manager.module_managers
            m    == Cardinality(mods)
        IN  \A i \in DOMAIN draws :
                (StartsCycle(i) /\ i + m - 1 <= Len(draws)) => DrawnModules(i, m) = mods

\* C9 witness: three modules, two full rotations, the second one started by a
\* module-pool reset.
C9_Witness ==
    /\ IsPositioning
    /\ Cardinality(DOMAIN topic_manager.module_managers) = 3
    /\ Len(draws) >= 6
    /\ draws[4].reset

\* the constructor was given no module with a topic
NoModuleHasTopics ==
    /\ request.kind = "PositioningTopicManager"
    /\ KeptModules(request.modules_topics) = {}

\* C12 as stated: constructing a PositioningTopicManager from a mapping in
\* which no module has a topic raises an error at construction time, so no
\* manager object exists.
C12_ErrorAtConstruction == NoModuleHasTopics => ~IsPositioning

\* C12 amended: the construction always returns a manager, which holds
\* exactly the modules with a non-empty topic list; a draw that returns a
\* topic returns a topic of such a module; and when no module has a topic
\* every get_next_topic call raises ValueError.
C12_ErrorAtFirstDraw ==
    request.kind = "PositioningTopicManager" =>
        LET mt == request.modules_topics
        IN  /\ IsPositioning
            /\ DOMAIN topic_manager.module_managers = {m \in DOMAIN mt : mt[m] # <<>>}
            /\ \A i \in DOMAIN draws :
                  IF \A m \in DOMAIN mt : mt[m] = <<>>
                  THEN draws[i].error = "ValueError"
                  ELSE /\ draws[i].error = ""
                       /\ draws[i].module \in DOMAIN mt
                       /\ mt[draws[i].module] # <<>>
                       /\ draws[i].topic \in Range(mt[draws[i].module])

\* two draws on a manager built from modules without topics have raised
C12_Witness ==
    /\ NoModuleHasTopics
    /\ IsPositioning
    /\ Len(draws) >= 2
    /\ \A i \in DOMAIN draws : draws[i].error = "ValueError"

---------------------------------------------------------------------------
(* Claims about evaluate_standard and evaluate_mixed (Spec) *)

IsMixed == request.kind = "evaluate_mixed"

Terminated == pc \in {"returned", "raised"}

\* C1: every terminating call of evaluate_mixed or evaluate_standard with
\* num_questions = N returns exactly N questions or ends with an error; it
\* never returns fewer than N questions.
C1_CompleteOrError ==
    (request.kind \in {"evaluate_mixed", "evaluate_standard"} /\ Terminated) =>
        \/ pc = "raised"
        \/ Len(outcome.result.questions) = request.num_questions

\* the inputs are valid: the weights pass the validation and there are topics
\* to draw from
ValidMixedInputs ==
    /\ IsMixed
    /\ ValidationError(request) = ""
    /\ IF request.is_positioning
       THEN \E m \in DOMAIN request.modules_topics : request.modules_topics[m] # <<>>
       ELSE request.topics # <<>>

\* no collaborator failed, and every generation call made has returned one
\* question (of the requested type, the only ones the LLM of the model writes)
EveryCallAnswered ==
    /\ CacheKey \in agents_cache
    /\ \A i \in DOMAIN tasks : tasks[i].st = "done" /\ tasks[i].result # <<>>
    /\ \A i \in DOMAIN ref_tasks : ref_tasks[i] # "failed"

CountOf(questions, Shape(_)) == Cardinality({i \in DOMAIN questions : Shape(questions[i])})

\* C2: for valid inputs, when every generation call returns one question of
\* the requested type, evaluate_mixed returns exactly num_questions questions,
\* mcq_count of the MCQ shape and open_count of the open shape, where
\* (mcq_count, open_count) = distribute_question_counts(num_questions, weights).
C2_MixedCounts ==
    (ValidMixedInputs /\ Terminated /\ EveryCallAnswered) =>
        LET c == distribute_question_counts(request.num_questions,
                                            <<request.mcq_weight, request.open_weight>>)
        IN  /\ pc = "returned"
            /\ c.kind = "ok"
            /\ Len(outcome.result.questions) = request.num_questions
            /\ CountOf(outcome.result.questions, IsMCQ) = c.counts[1]
            /\ CountOf(outcome.result.questions, IsOpen) = c.counts[2]

\* C3: evaluate_mixed called with weights whose sum differs from 1.0 by more
\* than 0.001 raises a validation error, and the request issues no agent
\* build, no retrieval call and no LLM call.
C3_InvalidSumRejectedFirst ==
    (IsMixed /\ ~WeightsSumToOne(request.mcq_weight, request.open_weight)) =>
        /\ calls = NoCalls
        /\ pc \in {"validate", "raised"}
        /\ pc = "raised" =>
              outcome \in {Raised("400 MCQ and Open weights must sum to 1.0"),
                           Raised("400 Weights must be between 0 and 1")}

\* weights 0.6 and 0.4997 have been rejected for their sum
C3_Witness ==
    /\ IsMixed
    /\ request.mcq_weight = 6000 /\ request.open_weight = 4997
    /\ outcome = Raised("400 MCQ and Open weights must sum to 1.0")

\* a generation, context-retrieval or reference-resolution call has failed
SomeCallFailed ==
    \/ \E i \in DOMAIN tasks : tasks[i].st = "failed"
    \/ \E i \in DOMAIN ref_tasks : ref_tasks[i] = "failed"

\* the exception is on its way to the caller: the gather of a batch, or the
\* gather of the batches, is about to raise
DeliveryPending == ENABLED (Raise \/ \E b \in DOMAIN batches : BatchRaise(b))

\* C4: if a generation, context-retrieval or reference-resolution call of a
\* batch fails, evaluate_mixed never returns a question list (not even the
\* questions of the batches that succeeded): the caller has received the
\* error, or the error is being raised towards the caller.
C4_FailurePropagates ==
    (IsMixed /\ SomeCallFailed) =>
        /\ outcome.kind # "returned"
        /\ pc # "returned"
        /\ (pc = "raised" /\ outcome.kind = "raised") \/ DeliveryPending

\* the caller has the error of one batch while another batch has finished
\* with a question
C4_Witness ==
    /\ IsMixed /\ SomeCallFailed
    /\ pc = "raised"
    /\ \E b \in DOMAIN batches :
          batches[b].st = "returned" /\ BatchQuestionIdx(b) # <<>>

\* the request has no topic to draw from
EmptyTopicsRequest ==
    /\ request.kind = "evaluate_standard" \/ (IsMixed /\ ~request.is_positioning)
    /\ request.topics = <<>>

PositioningWithoutTopics ==
    /\ IsMixed /\ request.is_positioning
    /\ KeptModules(request.modules_topics) = {}

ValidationErrors ==
    {Raised("400 Weights must be between 0 and 1"),
     Raised("400 MCQ and Open weights must sum to 1.0"),
     Raised("400 modules_topics is required for positioning evaluation")}

\* C11: a request with an empty topic list (evaluate_standard, or
\* evaluate_mixed without positioning) and a positioning request without
\* module topics never get past the validation: they are rejected with a
\* validation error, and no LLM call is issued.
C11_RejectedByValidation ==
    (EmptyTopicsRequest \/ PositioningWithoutTopics) =>
        /\ calls.llm = 0
        /\ pc \in {"validate", "raised"}
        /\ pc = "raised" => outcome \in ValidationErrors

\* the tasks that hold a generation permit: inside "async with semaphore",
\* retrieving the context or waiting for the LLM
HoldingPermit == {i \in DOMAIN tasks : tasks[i].st \in {"context", "generating"}}

\* C16: within one request the tasks holding a generation permit are at most
\* MAX_CONCURRENT_EVALUATIONS, over all batches, and a task that has ended,
\* done or failed, holds none: the free permits are all but those of the
\* tasks inside.
C16_GenerationPermits ==
    tasks # <<>> =>
        /\ Cardinality(HoldingPermit) <= MAX_CONCURRENT_EVALUATIONS
        /\ generation_semaphore = MAX_CONCURRENT_EVALUATIONS - Cardinality(HoldingPermit)

\* every permit is taken by tasks of two batches, after an earlier task has
\* failed and given its permit back
C16_Witness ==
    /\ Cardinality(HoldingPermit) = MAX_CONCURRENT_EVALUATIONS
    /\ generation_semaphore = 0
    /\ \E i, j \in HoldingPermit : BatchOf(i) # BatchOf(j)
    /\ \E k \in DOMAIN tasks : tasks[k].st = "failed"

\* the reference-resolution calls in flight
InFlightReferences == {i \in DOMAIN ref_tasks : ref_tasks[i] = "fetching"}

\* C17: within one request (evaluate_standard or evaluate_mixed) the
\* reference-resolution calls in flight are at most MAX_CONCURRENT_REFERENCES,
\* over all batches, and no task waits for a reference permit while it holds
\* a generation permit.
C17_ReferencesBounded ==
    /\ Cardinality(InFlightReferences) <= MAX_CONCURRENT_REFERENCES
    /\ \A i \in DOMAIN ref_tasks : ref_tasks[i] = "waiting" => i \notin HoldingPermit

\* the generation call of task i has started
GenerationStarted(i) == tasks[i].st \in {"context", "generating", "done"}

\* the generation calls of batch b have all completed
GenerationComplete(b) == \A j \in BatchItems(b) : tasks[j].st \in {"done", "failed"}

\* C18 as stated: in evaluate_mixed no generation call of batch N+1 starts
\* before every generation call of batch N has completed and the references
\* of batch N have been dispatched, so at most one batch is in its
\* generation phase at any moment.
C18_SequentialBatches ==
    request.kind = "evaluate_mixed" =>
        /\ \A b \in DOMAIN batches : \A i \in DOMAIN tasks :
              (BatchOf(i) = b + 1 /\ GenerationStarted(i)) =>
                  /\ GenerationComplete(b)
                  /\ batches[b].st \in {"references", "returned", "raised"}
        /\ Cardinality({BatchOf(i) : i \in HoldingPermit}) <= 1

\* C18: within each batch the references are dispatched only after every
\* generation call of that batch has completed with success; the batches of
\* evaluate_standard follow one another, those of evaluate_mixed all start
\* together.
C18_BatchPipeline ==
    /\ \A i \in DOMAIN ref_tasks :
          ref_tasks[i] # "none" =>
              \A j \in BatchItems(BatchOf(i)) : tasks[j].st = "done"
    /\ request.kind = "evaluate_standard" =>
          \A b \in DOMAIN batches : \A i \in DOMAIN tasks :
              (BatchOf(i) = b + 1 /\ GenerationStarted(i)) =>
                  \A j \in BatchItems(b) : tasks[j].st = "done"
    /\ request.kind = "evaluate_mixed" =>
          \A b \in DOMAIN batches : batches[b].st # "notstarted"

\* evaluate_mixed: the references of the second batch are dispatched while a
\* generation call of the first batch is still running
C18_Witness ==
    /\ request.kind = "evaluate_mixed"
    /\ \E i, j \in DOMAIN tasks :
          /\ BatchOf(i) = 1 /\ i \in HoldingPermit
          /\ BatchOf(j) = 2 /\ ref_tasks[j] # "none"

---------------------------------------------------------------------------
(* Claims about the runs that generate questions (SpecBulk, Spec) *)

\* C19: in every run that produces questions by live generation, the bulk
\* bank generation included, the references slot of each question is
\* written exactly once, and only after the generation call of that
\* question has completed.
C19_ReferencesWrittenOnce ==
    /\ \A i \in DOMAIN tasks :
          /\ tasks[i].writes <= 1
          /\ tasks[i].writes >= 1 => tasks[i].st = "done"
    /\ pc = "returned" =>
          \A i \in DOMAIN tasks : tasks[i].result # <<>> => tasks[i].writes = 1

\* C20: once evaluate_mixed has delivered the error of a failed task to its
\* caller, no further context-retrieval, generation or reference-resolution
\* call of that request is started.
C20_NoCallsAfterError ==
    [][(IsMixed /\ pc = "raised") => calls' = calls]_vars

\* C21: once a request has obtained the agent of its course key, every later
\* get_cached_agent look-up of its context and reference tasks returns an
\* agent, whatever other requests do to the cache: no task fails at its
\* look-up ("No agent available").  A task fails at its look-up when it goes
\* from waiting to failed in one step.
C21_AgentStaysAvailable ==
    [][\A i \in DOMAIN tasks :
          /\ ~(tasks[i].st = "waiting" /\ tasks'[i].st = "failed")
          /\ ~(ref_tasks[i] \in {"none", "waiting"} /\ ref_tasks'[i] = "failed")]_vars

---------------------------------------------------------------------------
(* Claims about evaluate_mixed_from_csv (SpecCsv) *)

\* the modules loaded so far whose CSV was found (with or without rows), and
\* those whose CSV held at least one question
LoadedModules == {m \in DOMAIN csv.loads : csv.loads[m].found}
HitModuleSet  == {m \in DOMAIN csv.loads : csv.loads[m].questions # <<>>}

NoLiveGeneration ==
    /\ ~csv.fallback
    /\ calls.build = 0 /\ calls.retrieval = 0 /\ calls.llm = 0

\* C6: when no requested module yields a CSV hit, the result of the fallback
\* to evaluate_mixed carries source = "agent" and a question list of the
\* requested length.
C6_FallbackSourceAgent ==
    (csv.fallback /\ pc = "returned") =>
        /\ "source" \in DOMAIN outcome.result
        /\ outcome.result.source = "agent"
        /\ Len(outcome.result.questions) = request.num_questions

\* the result of the CSV path, for the modules in `served`: source "csv",
\* questions of served modules only, and every other loaded module missing
CsvResultOver(served) ==
    /\ outcome.result.source = "csv"
    /\ \A i \in DOMAIN outcome.result.questions :
          LET text == outcome.result.questions[i][1]
          IN  /\ text[1] \in served
              /\ \E q \in Range(csv.loads[text[1]].questions) : q.text = text
    /\ IsDistinct(outcome.result.missing_modules)
    /\ Range(outcome.result.missing_modules) = Range(ModulesToLoad(request)) \ served

\* C7 as stated: when the CSV of at least one requested module loads, there
\* is no live generation, and the result has source "csv", questions of
\* loaded modules only, and missing_modules = the modules that did not load.
C7_LoadNoLive ==
    (LoadedModules # {}) =>
        /\ NoLiveGeneration
        /\ pc = "returned" => CsvResultOver(LoadedModules)

\* C7: when the CSV of at least one requested module loads with at least
\* one question, evaluate_mixed_from_csv makes no live-generation call, and
\* its result has source "csv", questions of modules whose CSV held
\* questions only, and missing_modules = the requested modules with topics
\* whose CSV did not load or held no question.
C7_HitNoLive ==
    (HitModuleSet # {}) =>
        /\ NoLiveGeneration
        /\ pc = "returned" => CsvResultOver(HitModuleSet)

\* a result served from one module's CSV while the CSV of another module
\* loaded without a question and is reported missing
C7_Witness ==
    /\ pc = "returned"
    /\ HitModuleSet # {}
    /\ LoadedModules \ HitModuleSet # {}
    /\ outcome.result.questions # <<>>
    /\ Range(outcome.result.missing_modules) = LoadedModules \ HitModuleSet

\* the call went through the CSV selection (no fallback to live generation)
CsvSelected == pc \in {"returned", "raised"} /\ ~csv.fallback

\* the target counts the claim gives for the request
ClaimedTargets ==
    CASE request.num_questions = 5 -> <<3, 2>>
      [] request.num_questions = 10 -> <<7, 3>>
      [] request.num_questions = 15 -> <<10, 5>>
      [] OTHER -> distribute_question_counts(request.num_questions,
                      <<request.mcq_weight, request.open_weight>>)

\* C14: on the CSV path the target (mcq, open) counts are (3, 2), (7, 3) and
\* (10, 5) for num_questions 5, 10 and 15 whatever the weights are, and
\* for every other num_questions they are what distribute_question_counts
\* gives for [mcq_weight, open_weight] (its exception included).
C14_CsvTargetCounts ==
    CsvSelected =>
        IF request.num_questions \in {5, 10, 15}
        THEN pc = "returned" /\ counts = ClaimedTargets
        ELSE IF ClaimedTargets.kind = "ok"
             THEN pc = "returned" /\ counts = ClaimedTargets.counts
             ELSE pc = "raised" /\ outcome = Raised(ClaimedTargets.kind)

\* a CSV call for 10 questions with equal weights, whose targets are (7, 3)
\* where the weights alone give (5, 5)
C14_Witness ==
    /\ CsvSelected /\ pc = "returned"
    /\ request.num_questions = 10
    /\ request.mcq_weight = request.open_weight
    /\ counts = <<7, 3>>
    /\ distribute_question_counts(10, <<request.mcq_weight, request.open_weight>>).counts = <<5, 5>>

\* the questions of a type held by the hit modules
CsvAvailable(type) ==
    LET qbm == csv.questions_by_module
    IN  Concat([i \in 1..Len(HitModules(qbm)) |-> OfType(qbm[HitModules(qbm)[i]], type)])

\* the call has returned questions selected from CSV files
CsvReturned == pc = "returned" /\ ~csv.fallback

---------------------------------------------------------------------------
(* Claims about the shared agent cache (SpecState) *)

\* the callers that have built an agent for key k
Builders(k) == {c \in DOMAIN callers : callers[c].built /\ callers[c].key = k}

\* C22: under any interleaving of get_agent_for_course calls, with no cache
\* clear, the agent of a key is built at most once, every caller that
\* returns gets the memoized agent of its key, and the entry of a key holds
\* an agent built for that key.
C22_BuiltOncePerKey ==
    /\ \A k \in CourseKeys : Cardinality(Builders(k)) <= 1
    /\ \A c \in DOMAIN callers :
          callers[c].pc = "done" =>
              /\ callers[c].key \in DOMAIN agent_of
              /\ callers[c].got = agent_of[callers[c].key]
    /\ \A k \in DOMAIN agent_of :
          /\ agent_of[k].key = k
          /\ Builders(k) = {agent_of[k].builder}

\* two callers of one key have gone for the lock, one has built the agent
\* and both have returned it, while another key holds its own agent
C22_Witness ==
    \E c1, c2, c3 \in DOMAIN callers :
        /\ c1 # c2
        /\ callers[c1].key = callers[c2].key /\ callers[c3].key # callers[c1].key
        /\ callers[c1].pc = "done" /\ callers[c2].pc = "done" /\ callers[c3].pc = "done"
        /\ callers[c1].built /\ ~callers[c2].built /\ callers[c3].built
        /\ callers[c2].got = callers[c1].got
        /\ callers[c2].got.builder = c1

---------------------------------------------------------------------------
(* Claims about parse_llm_response (SpecParse) *)

\* the answers parsed so far
ParsedSoFar ==
    IF pc = "raised" THEN {} ELSE 1..Len(outcome.results)

\* C24: each generation call contributes at most one question:
\* parse_llm_response returns only the first element of the `questions`
\* list, raises when `questions` is missing or is not a list, and the
\* questions of a batch are never more than its pairs.
C24_AtMostOnePerCall ==
    request.kind = "generate_questions_batch" =>
        /\ \A i \in ParsedSoFar :
              LET resp == request.responses[i]
              IN  /\ resp.has_questions /\ resp.is_list
                  /\ Len(outcome.results[i]) <= 1
                  /\ outcome.results[i] =
                        IF resp.questions = <<>> THEN <<>> ELSE <<resp.questions[1]>>
        /\ pc = "raised" =>
              \E i \in DOMAIN request.responses :
                  ~(request.responses[i].json /\ request.responses[i].has_questions
                        /\ request.responses[i].is_list)
        /\ (\E i \in DOMAIN request.responses :
                 ~(request.responses[i].has_questions /\ request.responses[i].is_list))
              => pc # "returned"
        /\ pc = "returned" =>
              Len(outcome.result.questions) <= Len(request.responses)

\* a batch of two pairs whose answers hold three questions and one question
\* has returned two questions
C24_Witness ==
    /\ request.kind = "generate_questions_batch"
    /\ pc = "returned"
    /\ Len(request.responses) = 2
    /\ Len(request.responses[1].questions) = 3
    /\ Len(request.responses[2].questions) = 1
    /\ Len(outcome.result.questions) = 2

---------------------------------------------------------------------------
(* Claims about generate_module_questions (SpecBank, FairSpecBank) *)

\* the normalized texts of a list of questions
NormalizedTexts(questions) == [i \in DOMAIN questions |-> questions[i][1].norm]

\* C25: the questions of generate_module_questions for a language never hold
\* two questions with the same normalized text, in the list under
\* construction and in the list returned, also when the runs of the two
\* languages are interleaved; the hashes of a language never keep a
\* question of the other language out.
C25_NoDuplicateTexts ==
    bank.kind # "idle" =>
        \A l \in Languages :
            /\ IsDistinct(NormalizedTexts(bank.runs[l].all_questions))
            /\ IsDistinct(NormalizedTexts(bank.runs[l].result))
            /\ \A i \in DOMAIN bank.runs[l].all_questions :
                  hash_question(bank.runs[l].all_questions[i], l) \in bank.generated_hashes[l]

\* both runs have returned the same text, and one of them has returned
\* nothing but "q1" after MAX_ITERATIONS iterations
C25_Witness ==
    /\ bank.kind # "idle"
    /\ \A l \in Languages : bank.runs[l].pc = "returned"
    /\ \E i \in DOMAIN bank.runs["French"].result, j \in DOMAIN bank.runs["English"].result :
          bank.runs["French"].result[i] = bank.runs["English"].result[j]
    /\ \E l \in Languages :
          /\ Len(bank.runs[l].result) = 1
          /\ bank.runs[l].result[1][1].norm = "q1"
          /\ bank.runs[l].iterations = MAX_ITERATIONS

\* a run of language l has left the loop and returned
RunReturned(l) == bank.runs[l].pc = "returned"

\* the first list is the beginning of the second
IsPrefix(a, b) == Len(a) <= Len(b) /\ SubSeq(b, 1, Len(a)) = a

\* the loop counters and the returned list stay within their limits
C28_Bounded ==
    \A l \in Languages :
        /\ bank.runs[l].iterations <= MAX_ITERATIONS
        /\ Len(bank.runs[l].result) <= QUESTIONS_PER_MODULE
        /\ RunReturned(l) => bank.runs[l].result = bank.runs[l].all_questions

\* no step takes a question out of the list accumulated so far
C28_KeepsAccumulated ==
    \A l \in Languages :
        IsPrefix(bank.runs[l].all_questions, bank'.runs[l].all_questions)

\* C28: generate_module_questions terminates after at most MAX_ITERATIONS
\* batch iterations whatever the batches do, returns at most
\* QUESTIONS_PER_MODULE questions, and a failing batch never discards the
\* questions accumulated from earlier batches (they are all returned).
C28_TerminatesAndKeeps ==
    /\ [](bank.kind # "idle" => C28_Bounded)
    /\ [][bank.kind # "idle" => C28_KeepsAccumulated]_vars
    /\ <>(bank.kind # "idle" => \A l \in Languages : RunReturned(l))

\* a run whose last batch failed has returned the questions of its earlier
\* batches after MAX_ITERATIONS iterations, the other run has returned
\* QUESTIONS_PER_MODULE questions before that
C28_Witness ==
    /\ bank.kind # "idle"
    /\ \A l \in Languages : RunReturned(l)
    /\ \E l \in Languages :
          /\ bank.runs[l].batch = "failed"
          /\ bank.runs[l].iterations = MAX_ITERATIONS
          /\ bank.runs[l].result # <<>>
    /\ \E l \in Languages :
          /\ bank.runs[l].iterations < MAX_ITERATIONS
          /\ Len(bank.runs[l].result) = QUESTIONS_PER_MODULE

---------------------------------------------------------------------------
(* Claims about the references of a question (SpecRefs) *)

\* the file name and the label a source node contributes, when it
\* contributes a reference
ValidNodes(nodes) ==
    SelectSeq(nodes, LAMBDA n : SplitLast(n.file_name, "/") # <<>> /\ n.page_label # <<>>)

\* the normalized title of a file: its name without directory and
\* extension, underscores as spaces
FileTitle(file_name) == ReplaceUnderscores(splitext_root(SplitLast(file_name, "/")))

\* the page of a label
LabelPage(page_label) == SplitLast(page_label, "_")

\* the distinct file titles of the nodes, in order of first appearance
TitlesInOrder(nodes) ==
    DictFromKeys([i \in DOMAIN ValidNodes(nodes) |-> FileTitle(ValidNodes(nodes)[i].file_name)])

\* the pages referenced in the file(s) of a title
PagesOfTitle(nodes, title) ==
    {LabelPage(n.page_label) : n \in {m \in Range(ValidNodes(nodes)) : FileTitle(m.file_name) = title}}

\* the fetched list holds each raw reference of the nodes once, first
\* occurrences in order
FirstOccurrences(nodes, raw_refs) ==
    LET all == [i \in DOMAIN ValidNodes(nodes) |->
                   SplitLast(ValidNodes(nodes)[i].file_name, "/") \o <<":">>
                       \o ValidNodes(nodes)[i].page_label]
    IN  /\ IsDistinct(raw_refs)
        /\ Range(raw_refs) = Range(all)
        /\ \A i, j \in DOMAIN raw_refs :
              i < j => Minimum(Positions(all, raw_refs[i])) < Minimum(Positions(all, raw_refs[j]))

\* one merged string per distinct title, in order of first appearance, with
\* the distinct pages of the title in ascending order
OnePerTitle(nodes, merged) ==
    LET titles == TitlesInOrder(nodes)
    IN  /\ Len(merged) = Len(titles)
        /\ \A i \in DOMAIN titles :
              merged[i] = MergedRef(titles[i], SortedByInt(PagesOfTitle(nodes, titles[i])))

\* C26: fetch deduplication keeps the first occurrence of each raw
\* reference in insertion order, and format_and_merge_refs returns exactly
\* one merged string per distinct normalized file title, in order of first
\* appearance, with distinct page labels in ascending numeric order.
C26_OneMergedStringPerTitle ==
    /\ resolution.pc \in {"fetched", "formatted"} =>
          FirstOccurrences(resolution.source_nodes, resolution.raw_refs)
    /\ resolution.pc = "formatted" =>
          OnePerTitle(resolution.source_nodes, resolution.merged)

---------------------------------------------------------------------------
(* Claims about update_module_progress (SpecProgress) *)

\* the modules of the course whose status is "completed"
CompletedModules ==
    {m \in DOMAIN course_progress.modules_status :
        course_progress.modules_status[m].status = "completed"}

\* C29: after any sequence of update_module_progress calls, completed_modules
\* equals the number of modules whose status is "completed" and
\* overall_progress equals completed_modules / total_modules * 100 (so the
\* first passing evaluation of a module raises completed_modules by one and
\* later passes of the module leave it).
C29_CompletedModulesCounted ==
    course_progress.kind = "CourseProgress" =>
        /\ course_progress.completed_modules = Cardinality(CompletedModules)
        /\ course_progress.overall_progress =
              Percentage(Cardinality(CompletedModules), course_progress.total_modules)

---------------------------------------------------------------------------
(* Claims about the tokens of a user (SpecAuth) *)

\* the store accepts the credential: verify_token returns its user, or
\* refresh_access_token issues an access token for it
Accepted(c) ==
    IF c.kind = "access" THEN VerifyAccepted(c.serial) ELSE RefreshAccepted(c.serial)

\* C30: after revoke_all_tokens(user) has succeeded, no credential issued to
\* the user before the revocation is accepted any more: verify_token rejects
\* every access token and refresh_access_token every refresh token issued
\* earlier.
C30_RevokedNeverAccepted ==
    redis.kind = "redis" => \A c \in redis.revoked : ~Accepted(c)

---------------------------------------------------------------------------
(* Claims about extract_and_parse_json (SpecJson) *)

IsProse(s) == \A i \in 1..Len(s) : s[i] \in {"w", " "}

HasWord(s) == \E i \in 1..Len(s) : s[i] = "w"

\* what lies between the first "{" and the last "}" of the response
BetweenBraces ==
    LET raw == request.raw_response
    IN  IF find(raw, "{") # -1 /\ rfind(raw, "}") # -1
        THEN Slice(raw, find(raw, "{"), rfind(raw, "}"))
        ELSE <<>>

\* the response is one valid JSON object with prose before it, after it or
\* on both sides
ProseAroundObject ==
    LET raw == request.raw_response
    IN  /\ json_loads(BetweenBraces).kind = "ok"
        /\ IsProse(SubSeq(raw, 1, find(raw, "{")))
        /\ IsProse(SubSeq(raw, rfind(raw, "}") + 2, Len(raw)))
        /\ \/ HasWord(SubSeq(raw, 1, find(raw, "{")))
           \/ HasWord(SubSeq(raw, rfind(raw, "}") + 2, Len(raw)))

JsonCallDone == request.kind = "extract_and_parse_json" /\ pc # "parse"

\* C15: for a response that is one valid JSON object with prose before it,
\* after it or on both sides, extract_and_parse_json returns that object;
\* it fails only when no valid JSON object lies between the first "{" and
\* the last "}", and the error then names the topic.
C15_ProseStripped ==
    JsonCallDone =>
        /\ ProseAroundObject =>
              outcome = [kind |-> "returned", result |-> json_loads(BetweenBraces).value]
        /\ pc = "raised" =>
              /\ json_loads(BetweenBraces).kind # "ok"
              /\ outcome.detail[2] = request.context_info

---------------------------------------------------------------------------
(* Claims about select_random_questions_balanced (SpecSelect) *)

\* the number of selected questions that come from module m
SelectedFrom(m) == Cardinality({i \in DOMAIN csv.selected : csv.selected[i].id[1] = m})

\* ceil(count / number of hit modules): the share a module may be asked for
FairShare ==
    LET n == Cardinality(DOMAIN csv.questions_by_module)
    IN  (request.count + n - 1) \div n

\* every hit module holds at least its share of questions of the type
EveryModuleHoldsEnough ==
    \A m \in DOMAIN csv.questions_by_module :
        Len(OfType(csv.questions_by_module[m], request.question_type)) >= FairShare

\* C13: with is_positioning set, for each question type and every target
\* count, when every hit module holds enough questions of that type, the
\* numbers selected from any two hit modules differ by at most one and sum
\* to the target count.
C13_BalancedAcrossModules ==
    (request.kind = "select_random_questions_balanced" /\ pc = "returned"
        /\ request.is_positioning /\ EveryModuleHoldsEnough) =>
        /\ Len(csv.selected) = request.count
        /\ \A m1, m2 \in DOMAIN csv.questions_by_module :
              SelectedFrom(m1) - SelectedFrom(m2) <= 1

============================================================================
